---- MODULE Spec2Model ----
(***************************************************************************)
(* A model of gust, a package manager: the dependency resolver             *)
(* (crates/gust-resolver), its version-set algebra and its version choice  *)
(* policy.                                                                 *)
(*                                                                         *)
(* Three specifications share the module:                                  *)
(*   SpecAlgebra  the GustVersionSet operations applied to drawn sets,     *)
(*   SpecChoose   GustDependencyProvider::choose_version applied to a      *)
(*                drawn provider, policy and range,                        *)
(*   Spec         Resolver::resolve, run on a drawn provider and manifest. *)
(* The crates beside the resolver have specifications of their own, each   *)
(* introduced where its part of the module begins.                         *)
(***************************************************************************)
EXTENDS Integers, Sequences, FiniteSets, TLC

VARIABLES
    alg,        \* SpecAlgebra: the operands and the last result
    cv,         \* SpecChoose: the last choose_version call and its result
    world,      \* the provider, the manifest, the hints and the strategy
    pc,         \* Resolver::resolve: "idle", "start", "solve", "done"
    terms,      \* pubgrub partial solution: package -> accumulated range
    decisions,  \* pubgrub partial solution: package -> decided version
    store,      \* pubgrub package store: packages in discovery order
    trace,      \* ResolutionTrace.choices: package -> (version, reason)
    outcome,    \* what resolve returned: "running", "ok", an error, "panic"
    resolution, \* Resolution.packages of the last successful resolve
    runs,       \* the number of resolve calls started on this Resolver
    previous,   \* Resolution.packages of the preceding successful resolve
    fetch,      \* gust-fetch: one fetch_many call (its tasks and semaphore)
    gcache,     \* gust-cache: the files of the GlobalCache and its callers
    bcache,     \* gust-binary-cache: the archives and the calls in flight
    build,      \* gust-build: the project and the fingerprints computed
    install,    \* gust: one run of Installer::install
    links,      \* the entries at link destinations and the link call made
    tags,       \* gust-fetch: one list_remote_tags call
    workspace   \* gust-workspace: a loaded Workspace and the call made on it

vars == <<alg, cv, world, pc, terms, decisions, store, trace, outcome,
          resolution, runs, previous, fetch, gcache, bcache, build,
          install, links, tags, workspace>>

\* The crates beside the resolver, and the state each has before it is used.
crates ==
    <<fetch, gcache, bcache, build, install, links, tags, workspace>>

\* The installer, the link destinations and the tag listing.
cli == <<install, links, tags, workspace>>

InstallIdle == install = [op |-> "idle"]

LinksIdle == links = [op |-> "idle"]

TagsIdle == tags = [op |-> "idle"]

WorkspaceIdle == workspace = [op |-> "idle"]

CliIdle == InstallIdle /\ LinksIdle /\ TagsIdle /\ WorkspaceIdle

FetchIdle == fetch = [op |-> "idle"]

CacheIdle == gcache = [op |-> "idle"]

BinaryCacheIdle == bcache = [op |-> "idle"]

BuildIdle == build = [op |-> "idle"]

CratesIdle ==
    FetchIdle /\ CacheIdle /\ BinaryCacheIdle /\ BuildIdle /\ CliIdle

(***************************************************************************)
(* Option<T> is a set with at most one element.                            *)
(***************************************************************************)
None == {}

Some(x) == {x}

Unwrap(o) == CHOOSE x \in o : TRUE

(***************************************************************************)
(* semver::Version, without pre-release and build tags: <<major, minor,    *)
(* patch>>, ordered lexicographically.                                     *)
(***************************************************************************)
Versions == {<<1, 3, 0>>, <<1, 4, 0>>, <<1, 5, 4>>, <<2, 0, 0>>}

RootVersion == <<0, 0, 0>>

VersionLt(v, w) ==
    \/ v[1] < w[1]
    \/ v[1] = w[1] /\ v[2] < w[2]
    \/ v[1] = w[1] /\ v[2] = w[2] /\ v[3] < w[3]

VersionLe(v, w) == v = w \/ VersionLt(v, w)

\* Iterator::max and Iterator::min over a non-empty collection of versions.
VersionMax(S) == CHOOSE v \in S : \A w \in S : VersionLe(w, v)

VersionMin(S) == CHOOSE v \in S : \A w \in S : VersionLe(v, w)

(***************************************************************************)
(* semver::VersionReq with one comparator: [op, v].                        *)
(***************************************************************************)
Caret(v) == [op |-> "caret", v |-> v]

ExactReq(v) == [op |-> "exact", v |-> v]

Less(v) == [op |-> "less", v |-> v]

\* VersionReq::matches
matches(req, v) ==
    CASE req.op = "caret" ->
            IF req.v[1] > 0
            THEN v[1] = req.v[1] /\ VersionLe(req.v, v)
            ELSE IF req.v[2] > 0
                 THEN v[1] = 0 /\ v[2] = req.v[2] /\ VersionLe(req.v, v)
                 ELSE v = req.v
      [] req.op = "exact" -> v = req.v
      [] req.op = "less" -> VersionLt(v, req.v)

\* VersionReq::parse on the strings the manifests of the model hold: a bare
\* version is a caret requirement; a string that does not parse gives None.
VersionReq_parse(s) ==
    CASE s = "2.0.0" -> Some(Caret(<<2, 0, 0>>))
      [] s = "^1.4" -> Some(Caret(<<1, 4, 0>>))
      [] s = "^1.5" -> Some(Caret(<<1, 5, 0>>))
      [] s = "^2" -> Some(Caret(<<2, 0, 0>>))
      [] s = "=1.4.0" -> Some(ExactReq(<<1, 4, 0>>))
      [] s = "<1.5.0" -> Some(Less(<<1, 5, 0>>))
      [] OTHER -> None

(***************************************************************************)
(* GustVersionSet: {req: Option<VersionReq>, included: Vec<Version>,       *)
(* negated: bool}.                                                         *)
(***************************************************************************)
any == [req |-> None, included |-> <<>>, negated |-> FALSE]

from_req(req) == [req |-> Some(req), included |-> <<>>, negated |-> FALSE]

exact(version) ==
    [req |-> Some(ExactReq(version)), included |-> <<version>>,
     negated |-> FALSE]

empty == [req |-> None, included |-> <<>>, negated |-> TRUE]

full == any

singleton(v) == exact(v)

complement(self) == [self EXCEPT !.negated = ~self.negated]

\* The test the code repeats for "self is the empty set".
IsEmptySet(s) == s.negated /\ s.req = None /\ s.included = <<>>

\* The test the code repeats for "self is the full set".
IsFullSet(s) == ~s.negated /\ s.req = None

intersection(self, other) ==
    IF IsEmptySet(self) THEN self
    ELSE IF IsEmptySet(other) THEN other
    ELSE IF IsFullSet(self) THEN other
    ELSE IF IsFullSet(other) THEN self
    ELSE IF ~self.negated /\ ~other.negated THEN self
    ELSE IF self.negated THEN other
    ELSE self

contains(self, v) ==
    LET m == IF self.req = None THEN TRUE ELSE matches(Unwrap(self.req), v)
    IN  IF self.negated THEN ~m ELSE m

union(self, other) ==
    IF IsFullSet(self) THEN self
    ELSE IF IsFullSet(other) THEN other
    ELSE IF IsEmptySet(self) THEN other
    ELSE IF IsEmptySet(other) THEN self
    ELSE any

is_disjoint(self, other) == IsEmptySet(self) \/ IsEmptySet(other)

subset_of(self, other) ==
    IsEmptySet(self) \/ IsFullSet(other) \/ self = other

(***************************************************************************)
(* SpecAlgebra: the version-set operations on drawn operands.              *)
(***************************************************************************)
Requirements ==
    {Caret(<<1, 4, 0>>), Caret(<<1, 5, 0>>), Caret(<<2, 0, 0>>),
     Less(<<1, 5, 0>>)}

\* The sets any/empty/from_req/exact build, and their complements.
BuiltSets ==
    {any, empty} \cup {from_req(r) : r \in Requirements}
                 \cup {exact(v) : v \in Versions}

VersionSets == BuiltSets \cup {complement(s) : s \in BuiltSets}

AlgebraIdle == alg = [op |-> "idle"]

othersOfAlgebra ==
    <<cv, world, pc, terms, decisions, store, trace, outcome, resolution,
      runs, previous, crates>>

AlgebraInit ==
    \E a \in VersionSets, b \in VersionSets :
        alg = [op |-> "new", a |-> a, b |-> b, out |-> a, paired |-> FALSE]

\* out := a.intersection(b)
Intersect ==
    /\ alg.op \in {"new", "complement"}
    /\ alg' = [alg EXCEPT !.op = "intersection",
                          !.out = intersection(alg.a, alg.b)]
    /\ UNCHANGED othersOfAlgebra

\* b := a.complement(), for a set A built without complement
Complement ==
    /\ alg.op = "new"
    /\ alg.a \in BuiltSets
    /\ alg' = [alg EXCEPT !.op = "complement", !.b = complement(alg.a),
                          !.out = complement(alg.a), !.paired = TRUE]
    /\ UNCHANGED othersOfAlgebra

\* the other argument order: a := A.complement(), b := A
ComplementSwap ==
    /\ alg.op = "new"
    /\ alg.a \in BuiltSets
    /\ alg' = [alg EXCEPT !.op = "complement", !.a = complement(alg.a),
                          !.b = alg.a, !.out = complement(alg.a),
                          !.paired = TRUE]
    /\ UNCHANGED othersOfAlgebra

(***************************************************************************)
(* The provider, the manifest and the resolver's policy.                   *)
(*   avail[p]        PackageProvider::available_versions(p); the empty set *)
(*                   is a package the provider does not know               *)
(*   deps[p][v][q]   the Dependency on q that PackageProvider::dependencies*)
(*                   (p, v) lists, if any                                  *)
(*   manifest[q]     Manifest.dependencies[q], if any                      *)
(*   overrides[p], constraints[p]  the manifest's strings, if any          *)
(*   hints[p]        LockfileHints.preferred_versions[p], if any           *)
(***************************************************************************)
Names == {"a", "b", "q"}

\* GustPackage: Root, or Named(name).
Root == "<root>"

Packages == Names \cup {Root}

Strategies == {"Highest", "Lowest", "Locked"}

\* Dependency {name, version: Option<VersionReq>}
Dependency(name, version) == [name |-> name, version |-> version]

NoDeps == [n \in Names |-> None]

\* A dependency list holding one Dependency on q, or nothing when d is None.
OnQ(d) == [n \in Names |-> IF n = "q" THEN d ELSE None]

\* The Dependency values on q the model draws from.
QDeps ==
    {None, Some(Dependency("q", None)),
     Some(Dependency("q", VersionReq_parse("^1.4"))),
     Some(Dependency("q", VersionReq_parse("^2")))}

AllThree == {<<1, 4, 0>>, <<1, 5, 4>>, <<2, 0, 0>>}

QAvail ==
    {{}, {<<1, 3, 0>>}, {<<1, 4, 0>>, <<1, 5, 4>>}, {<<1, 4, 0>>, <<2, 0, 0>>},
     AllThree}

\* MemoryProvider::available_versions
available_versions(w, package) ==
    IF w.avail[package] = {}
    THEN [ok |-> FALSE, versions |-> {}]
    ELSE [ok |-> TRUE, versions |-> w.avail[package]]

\* GustDependencyProvider::get_versions: the provider's answer, cached.
get_versions(w, package) == available_versions(w, package)

\* GustDependencyProvider::new: the manifest's strings that parse.
overrides(w) == [n \in Names |->
    IF w.overrides[n] = None THEN None
    ELSE VersionReq_parse(Unwrap(w.overrides[n]))]

constraints(w) == [n \in Names |->
    IF w.constraints[n] = None THEN None
    ELSE VersionReq_parse(Unwrap(w.constraints[n]))]

\* LockfileHints::preferred_version
preferred_version(w, name) == w.hints[name]

Chosen(version, reason) ==
    [err |-> FALSE, version |-> Some(version), reason |-> Some(reason)]

\* The versions of the provider that the range contains (lines 379-383).
InRange(w, name, range) ==
    {v \in get_versions(w, name).versions : contains(range, v)}

\* The override branch of choose_version (lines 361-376): the versions the
\* override matches.
OverrideMatching(w, name) ==
    IF overrides(w)[name] = None THEN {}
    ELSE {v \in get_versions(w, name).versions :
            matches(Unwrap(overrides(w)[name]), v)}

\* The strategy's pick with Lowest taking the maximum as the others do.
StrategyPick_max(strategy, matching) == VersionMax(matching)

\* The strategy's pick among the matching versions (lines 398-402).
StrategyPick(strategy, matching) ==
    IF strategy = "Lowest" THEN VersionMin(matching)
    ELSE VersionMax(matching)

\* The reason recorded with the strategy's pick (lines 405-409).
StrategyReason(strategy) ==
    IF strategy = "Lowest" THEN "LowestCompatible" ELSE "HighestCompatible"

\* choose_version with the hint taken whenever the provider has the hinted
\* version, inside the range or not.
choose_version_any_hint(w, name, range) ==
    IF ~get_versions(w, name).ok
    THEN [err |-> TRUE, version |-> None, reason |-> None]
    ELSE IF OverrideMatching(w, name) # {}
    THEN Chosen(VersionMax(OverrideMatching(w, name)), "Override")
    ELSE LET matching == InRange(w, name, range)
             locked == preferred_version(w, name)
         IN  IF locked # None /\ Unwrap(locked) \in get_versions(w, name).versions
             THEN Chosen(Unwrap(locked), "LockedHint")
             ELSE IF matching = {}
             THEN [err |-> FALSE, version |-> None, reason |-> None]
             ELSE Chosen(StrategyPick(w.strategy, matching),
                         StrategyReason(w.strategy))

\* GustDependencyProvider::choose_version for GustPackage::Named(name):
\* [err, version, reason]; reason is what record_choice was called with.
choose_version(w, name, range) ==
    IF ~get_versions(w, name).ok
    THEN [err |-> TRUE, version |-> None, reason |-> None]
    ELSE IF OverrideMatching(w, name) # {}
    THEN Chosen(VersionMax(OverrideMatching(w, name)), "Override")
    ELSE LET matching == InRange(w, name, range)
             locked == preferred_version(w, name)
         IN  IF locked # None /\ Unwrap(locked) \in matching
             THEN Chosen(Unwrap(locked), "LockedHint")
             ELSE IF matching = {}
             THEN [err |-> FALSE, version |-> None, reason |-> None]
             ELSE Chosen(StrategyPick(w.strategy, matching),
                         StrategyReason(w.strategy))

\* ResolutionTrace::record_choice, when choose_version recorded one.
record_choice(tr, name, choice) ==
    IF choice.reason = None THEN tr
    ELSE [tr EXCEPT ![name] =
            Some([version |-> Unwrap(choice.version),
                  reason |-> Unwrap(choice.reason)])]

(***************************************************************************)
(* SpecChoose: choose_version called on a drawn provider, policy and range.*)
(***************************************************************************)
ChooseWorlds ==
    {[avail |-> [n \in Names |-> IF n = "q" THEN av ELSE {}],
      deps |-> [n \in Names |-> [v \in Versions |-> NoDeps]],
      manifest |-> NoDeps,
      overrides |-> [n \in Names |-> IF n = "q" THEN ov ELSE None],
      constraints |-> [n \in Names |-> None],
      hints |-> [n \in Names |-> IF n = "q" THEN h ELSE None],
      strategy |-> s] :
        av \in QAvail, ov \in {None, Some("2.0.0"), Some("=1.4.0")},
        h \in {None, Some(<<1, 4, 0>>), Some(<<1, 3, 0>>)},
        s \in Strategies}

ChooseIdle == cv = [op |-> "idle"]

ResolverIdle ==
    /\ pc = "idle"
    /\ terms = [n \in Names |-> None]
    /\ decisions = [n \in Packages |-> None]
    /\ store = <<>>
    /\ outcome = "idle"
    /\ resolution = [n \in Packages |-> None]
    /\ runs = 0
    /\ previous = None

resolverVars ==
    <<pc, terms, decisions, store, outcome, resolution, runs, previous>>

ChooseInit ==
    /\ world \in ChooseWorlds
    /\ cv = [op |-> "new"]
    /\ trace = [n \in Names |-> None]
    /\ AlgebraIdle
    /\ ResolverIdle
    /\ CratesIdle

\* One call choose_version(Named(name), range) and the trace it leaves.
ChooseVersionCall ==
    \E name \in Names, range \in VersionSets :
        LET choice == choose_version(world, name, range)
        IN  /\ cv' = [op |-> "choose_version", name |-> name,
                      range |-> range, choice |-> choice]
            /\ trace' = record_choice(trace, name, choice)
            /\ UNCHANGED <<alg, world, resolverVars, crates>>

ChooseNext == ChooseVersionCall

SpecChoose == ChooseInit /\ [][ChooseNext]_vars

(***************************************************************************)
(* SpecAlgebra                                                             *)
(***************************************************************************)
AlgebraStart ==
    /\ AlgebraInit
    /\ ChooseIdle
    /\ world = [strategy |-> "Highest"]
    /\ trace = [n \in Names |-> None]
    /\ ResolverIdle
    /\ CratesIdle

AlgebraNext == Intersect \/ Complement \/ ComplementSwap

SpecAlgebra == AlgebraStart /\ [][AlgebraNext]_vars

(***************************************************************************)
(* Resolver::resolve.  The solver it calls is the pubgrub crate: the model *)
(* follows its loop (unit propagation, pick the package of highest         *)
(* priority, choose_version, get_dependencies, decide) on the runs that    *)
(* meet no conflict.  A run that meets a conflict ends as a failure of the *)
(* solver: resolve returns NoSolution or the solver aborts.                *)
(***************************************************************************)
MaxRuns == 2

\* The settings of overrides["q"], constraints["q"] and hints["q"] drawn.
Policies ==
    {[ov |-> ov, co |-> co, h |-> h] :
        ov \in {None, Some("2.0.0")}, co \in {None, Some("<1.5.0")},
        h \in {None, Some(<<1, 4, 0>>)}}

\* The shapes of the worlds a resolve is run on.  Packages a and b have
\* three versions each.  The newest version of a may depend on q (aq), its
\* older versions either as the newest (alo) or not at all; b may require
\* q ^2 (bq); q has no dependencies.  A package the manifest does not name
\* is left without dependencies: the manifest is the only way to it.
Shapes ==
    {c \in [avq : QAvail \ {{<<1, 4, 0>>, <<1, 5, 4>>}},
            ma : {None, Some(Dependency("a", None))},
            aq : QDeps, alo : BOOLEAN,
            mb : {None, Some(Dependency("b", None))},
            bq : {None, Some(Dependency("q", VersionReq_parse("^2")))},
            mq : QDeps, pol : Policies, s : {"Highest", "Lowest"}] :
        /\ c.ma = None => c.aq = None
        /\ c.aq = None => ~c.alo
        /\ c.mb = None => c.bq = None
        /\ c.pol.ov = None \/ c.pol.co = None}

ResolveWorlds ==
    {[avail |-> [n \in Names |-> IF n = "q" THEN c.avq ELSE AllThree],
      deps |-> [n \in Names |-> [v \in Versions |->
                  CASE n = "a" /\ v \in AllThree ->
                         IF v = VersionMax(AllThree) \/ c.alo THEN OnQ(c.aq)
                         ELSE NoDeps
                    [] n = "b" /\ v \in AllThree -> OnQ(c.bq)
                    [] OTHER -> NoDeps]],
      manifest |-> [n \in Names |->
                  CASE n = "a" -> c.ma [] n = "b" -> c.mb [] OTHER -> c.mq],
      overrides |-> [n \in Names |-> IF n = "q" THEN c.pol.ov ELSE None],
      constraints |-> [n \in Names |-> IF n = "q" THEN c.pol.co ELSE None],
      hints |-> [n \in Names |-> IF n = "q" THEN c.pol.h ELSE None],
      strategy |-> c.s] : c \in Shapes}

\* MemoryProvider::dependencies(package, version)
dependencies(w, package, version) == w.deps[package][version]

\* choose_version for GustPackage::Root (lines 354-358).
choose_version_root == RootVersion

\* The range of one Dependency (lines 436-444 and 467-471).
DependencyRange(dep) ==
    IF dep.version = None THEN any ELSE from_req(Unwrap(dep.version))

\* get_dependencies for GustPackage::Root (lines 424-452): package -> range.
get_dependencies_root(w) == [q \in Names |->
    IF w.manifest[q] = None THEN None
    ELSE Some(DependencyRange(Unwrap(w.manifest[q])))]

\* The range after "Apply additional constraints" (lines 473-477).
Constrained(w, q, range) ==
    IF constraints(w)[q] = None THEN range
    ELSE intersection(range, from_req(Unwrap(constraints(w)[q])))

\* get_dependencies for a Named package that hands the solver an empty map.
get_dependencies_none(w, name, version) == [q \in Names |-> None]

\* get_dependencies for GustPackage::Named (lines 453-483): package -> range.
get_dependencies(w, name, version) == [q \in Names |->
    IF dependencies(w, name, version)[q] = None THEN None
    ELSE Some(Constrained(w, q,
            DependencyRange(Unwrap(dependencies(w, name, version)[q]))))]

\* GustDependencyProvider::prioritize for GustPackage::Named.
prioritize(w, name) ==
    IF overrides(w)[name] # None THEN 1
    ELSE IF get_versions(w, name).ok
         THEN 100 + Cardinality(get_versions(w, name).versions)
         ELSE 1000

\* pubgrub: the packages with a positive range and no decision.
Undecided == {n \in Names : terms[n] # None /\ decisions[n] = None}

Index(seq, n) == CHOOSE i \in 1..Len(seq) : seq[i] = n

\* pubgrub: the undecided package of highest priority, the one discovered
\* first among equals.
NextPackage ==
    CHOOSE p \in Undecided : \A o \in Undecided \ {p} :
        \/ prioritize(world, p) > prioritize(world, o)
        \/ /\ prioritize(world, p) = prioritize(world, o)
           /\ Index(store, p) < Index(store, o)

\* pubgrub: what the partial solution holds for q, as a range.
Assigned(q) ==
    IF decisions[q] # None THEN Some(exact(Unwrap(decisions[q])))
    ELSE terms[q]

\* pubgrub: the relation of the incompatibility "p@v depends on q in range"
\* with the partial solution, once p@v is decided: Term::relation_with on
\* the term "not range" of q, which asks the version set is_disjoint and
\* subset_of.
Relation(q, range) ==
    IF Assigned(q) = None THEN "almost"
    ELSE IF is_disjoint(Unwrap(Assigned(q)), range) THEN "satisfied"
    ELSE IF subset_of(Unwrap(Assigned(q)), range) THEN "contradicted"
    ELSE "almost"

\* pubgrub add_derivation: the accumulated range of q after the dependency.
Derived(q, range) ==
    IF terms[q] = None THEN Some(range)
    ELSE IF Relation(q, range) = "almost"
         THEN Some(intersection(Unwrap(terms[q]), range))
         ELSE terms[q]

\* The orders in which a dependency map can be iterated.
Orders(S) ==
    {o \in [1..Cardinality(S) -> S] : \A i, j \in 1..Cardinality(S) :
        o[i] = o[j] => i = j}

\* The ways a failure of the solver surfaces from pubgrub::resolve (lines
\* 154-164): Err(NoSolution), or an abort inside the solver.
SolverFailures == {"NoSolution", "panic"}

NoTrace == [n \in Names |-> None]

ResolveInit ==
    /\ world \in ResolveWorlds
    /\ pc = "start"
    /\ terms = [n \in Names |-> None]
    /\ decisions = [n \in Packages |-> None]
    /\ store = <<>>
    /\ trace = NoTrace
    /\ outcome = "running"
    /\ resolution = [n \in Packages |-> None]
    /\ runs = 1
    /\ previous = None
    /\ AlgebraIdle
    /\ ChooseIdle
    /\ CratesIdle

Finish(result) ==
    /\ pc' = "done"
    /\ outcome' = result
    /\ UNCHANGED <<terms, decisions, store, resolution>>

\* The solver decides Root at 0.0.0 and propagates the manifest's
\* dependencies, which it meets in the order its map iterates.
DecideRoot ==
    /\ pc = "start"
    /\ contains(exact(RootVersion), choose_version_root)
    /\ terms' = get_dependencies_root(world)
    /\ \E o \in Orders({q \in Names : get_dependencies_root(world)[q] # None}) :
            store' = o
    /\ decisions' = [decisions EXCEPT ![Root] = Some(choose_version_root)]
    /\ pc' = "solve"
    /\ UNCHANGED <<crates, alg, cv, world, trace, outcome, resolution, runs, previous>>

\* The rest of a round, once choose_version answered: the solver checks the
\* version against the range, asks for the dependencies, decides and
\* propagates them.
Decide(p, range, v, d) ==
    LET required == {q \in Names : d[q] # None}
    IN  IF ~contains(range, v)
        THEN Finish("panic")
        ELSE IF \E q \in required :
                  \/ Relation(q, Unwrap(d[q])) = "satisfied"
                  \/ /\ Relation(q, Unwrap(d[q])) = "almost"
                     /\ (decisions[q] # None \/ q = p)
        THEN \E f \in SolverFailures : Finish(f)
        ELSE /\ decisions' = [decisions EXCEPT ![p] = Some(v)]
             /\ terms' = [q \in Names |->
                   IF q \in required THEN Derived(q, Unwrap(d[q]))
                   ELSE terms[q]]
             /\ \E o \in Orders({q \in required :
                                   \A i \in 1..Len(store) : store[i] # q}) :
                   store' = store \o o
             /\ UNCHANGED <<pc, outcome, resolution>>

\* One round of the solver's loop on the package of highest priority.
DecideNamed ==
    /\ pc = "solve"
    /\ Undecided # {}
    /\ \E p \in {NextPackage} :
       \E choice \in {choose_version(world, p, Unwrap(terms[p]))} :
          /\ trace' = record_choice(trace, p, choice)
          /\ IF choice.err
             THEN Finish("ProviderError")
             ELSE IF choice.version = None
             THEN \E f \in SolverFailures : Finish(f)
             ELSE \E d \in {get_dependencies(world, p,
                                             Unwrap(choice.version))} :
                     Decide(p, Unwrap(terms[p]), Unwrap(choice.version), d)
    /\ UNCHANGED <<crates, alg, cv, world, runs, previous>>

\* The names of the dependencies resolve reads back for a solved package
\* (lines 130-134).
dep_names(w, name, version) ==
    {q \in Names : dependencies(w, name, version)[q] # None}

\* The conversion of the solver's solution (lines 124-150): one ResolvedDep
\* for each GustPackage::Named of the solution.
to_resolution(w, solution) == [n \in Packages |->
    IF n \in Names /\ solution[n] # None
    THEN Some([name |-> n, version |-> Unwrap(solution[n]),
               dependencies |-> dep_names(w, n, Unwrap(solution[n]))])
    ELSE None]

\* No undecided package is left: the solver returns the decisions and
\* resolve converts them (lines 114-153).
Solved ==
    /\ pc = "solve"
    /\ Undecided = {}
    /\ resolution' = to_resolution(world, decisions)
    /\ outcome' = "ok"
    /\ pc' = "done"
    /\ UNCHANGED <<crates, alg, cv, world, terms, decisions, store, trace, runs,
                   previous>>

\* resolve is called again on the same Resolver and manifest.
ResolveAgain ==
    /\ pc = "done"
    /\ runs < MaxRuns
    /\ previous' = IF outcome = "ok" THEN Some(resolution) ELSE None
    /\ runs' = runs + 1
    /\ pc' = "start"
    /\ terms' = [n \in Names |-> None]
    /\ decisions' = [n \in Packages |-> None]
    /\ store' = <<>>
    /\ trace' = NoTrace
    /\ outcome' = "running"
    /\ resolution' = [n \in Packages |-> None]
    /\ UNCHANGED <<crates, alg, cv, world>>

Init == ResolveInit

Next == DecideRoot \/ DecideNamed \/ Solved \/ ResolveAgain

Spec == Init /\ [][Next]_vars

(***************************************************************************)
(* The claims.                                                             *)
(***************************************************************************)
\* The Dependency of package p, resolved at its version, on q, if any.
EdgeOf(p, q) ==
    IF p = Root THEN world.manifest[q]
    ELSE IF resolution[p] = None THEN None
    ELSE dependencies(world, p, Unwrap(resolution[p]).version)[q]

\* C1: after a successful resolve, for every dependency edge p -> q with a
\* requirement, p being Root or a resolved package at its chosen version,
\* the version chosen for q satisfies the requirement.
C1_EdgesSatisfied ==
    outcome = "ok" =>
        \A p \in Packages, q \in Names :
            (EdgeOf(p, q) # None /\ Unwrap(EdgeOf(p, q)).version # None) =>
                /\ resolution[q] # None
                /\ matches(Unwrap(Unwrap(EdgeOf(p, q)).version),
                           Unwrap(resolution[q]).version)

\* The versions of q that the override of q matches.
OverrideTargets(q) ==
    IF world.overrides[q] = None THEN {}
    ELSE {v \in world.avail[q] :
            matches(Unwrap(VersionReq_parse(Unwrap(world.overrides[q]))), v)}

\* The manifest names q alone, so that nothing but q is resolved.
OnlyQ ==
    /\ world.manifest["q"] # None
    /\ world.manifest["a"] = None
    /\ world.manifest["b"] = None

\* C2: when the override of q matches an available version, resolve
\* succeeds and assigns q the maximum available version the override
\* matches, with trace reason Override, also when the manifest's requirement
\* on q excludes that version.
C2_OverrideWins ==
    (pc = "done" /\ OnlyQ /\ OverrideTargets("q") # {}) =>
        /\ outcome = "ok"
        /\ resolution["q"] # None
        /\ Unwrap(resolution["q"]).version \in OverrideTargets("q")
        /\ \A v \in OverrideTargets("q") :
                VersionLe(v, Unwrap(resolution["q"]).version)
        /\ trace["q"] = Some([version |-> Unwrap(resolution["q"]).version,
                              reason |-> "Override"])

\* The provider's versions of the package of the last choose_version call
\* that its range contains.
Candidates == {v \in world.avail[cv.name] : contains(cv.range, v)}

\* The hint of the package of the last call is one of the candidates.
HintInside ==
    /\ world.hints[cv.name] # None
    /\ Unwrap(world.hints[cv.name]) \in Candidates

\* C3: with no override for p, choose_version returns hints[p] with reason
\* LockedHint, under every strategy, exactly when hints[p] is a version of
\* the provider that the range contains; a hint outside the range is never
\* returned.
C3_HintHonoured ==
    (cv.op = "choose_version" /\ world.overrides[cv.name] = None) =>
        /\ HintInside <=> cv.choice.reason = Some("LockedHint")
        /\ HintInside => cv.choice.version = world.hints[cv.name]
        /\ ~HintInside => cv.choice.version \subseteq Candidates
        /\ (~HintInside /\ world.hints[cv.name] # None) =>
                cv.choice.version # world.hints[cv.name]

C3_Witness ==
    /\ cv.op = "choose_version"
    /\ world.overrides[cv.name] = None
    /\ world.strategy = "Highest"
    /\ cv.choice.reason = Some("LockedHint")
    /\ \E v \in Candidates : VersionLt(Unwrap(cv.choice.version), v)

\* C4: with no override for p and no hint for p among the candidates,
\* choose_version returns the maximum candidate under Highest and Locked
\* and the minimum under Lowest, records HighestCompatible (LowestCompatible
\* for Lowest), and returns no version only when there is no candidate.
C4_StrategyPick ==
    (/\ cv.op = "choose_version"
     /\ world.overrides[cv.name] = None
     /\ world.avail[cv.name] # {}
     /\ ~HintInside) =>
        IF Candidates = {}
        THEN cv.choice.version = None /\ cv.choice.reason = None
        ELSE /\ cv.choice.version # None
             /\ Unwrap(cv.choice.version) \in Candidates
             /\ \A v \in Candidates :
                   IF world.strategy = "Lowest"
                   THEN VersionLe(Unwrap(cv.choice.version), v)
                   ELSE VersionLe(v, Unwrap(cv.choice.version))
             /\ cv.choice.reason =
                   Some(IF world.strategy = "Lowest" THEN "LowestCompatible"
                        ELSE "HighestCompatible")
             /\ trace[cv.name] =
                   Some([version |-> Unwrap(cv.choice.version),
                         reason |-> Unwrap(cv.choice.reason)])

C4_Witness ==
    /\ cv.op = "choose_version"
    /\ world.overrides[cv.name] = None
    /\ ~HintInside
    /\ world.strategy = "Lowest"
    /\ cv.choice.reason = Some("LowestCompatible")
    /\ \E v \in Candidates : VersionLt(Unwrap(cv.choice.version), v)

\* C5: after a successful resolve, every resolved package that has a
\* constraint in the root manifest is at a version the constraint matches.
C5_ConstraintHonoured ==
    outcome = "ok" =>
        \A p \in Names :
            (world.constraints[p] # None /\ resolution[p] # None) =>
                matches(Unwrap(VersionReq_parse(Unwrap(world.constraints[p]))),
                        Unwrap(resolution[p]).version)

\* C6: when the manifest requires q and the provider knows q but none of
\* its versions satisfies the requirement, resolve fails with
\* NoMatchingVersion.
C6_NoMatchingVersion ==
    (/\ pc = "done"
     /\ world.manifest["q"] # None
     /\ Unwrap(world.manifest["q"]).version # None
     /\ world.avail["q"] # {}
     /\ \A v \in world.avail["q"] :
            ~matches(Unwrap(Unwrap(world.manifest["q"]).version), v)) =>
        outcome = "NoMatchingVersion"

C8_IntersectionSound ==
    alg.op = "intersection" =>
        \A v \in Versions :
            contains(alg.out, v) => contains(alg.a, v) /\ contains(alg.b, v)

\* C9: intersection(A, complement(A)) contains no version, in either
\* argument order, for A built by any, empty, from_req or exact.
C9_ComplementDisjoint ==
    (alg.op = "intersection" /\ alg.paired) =>
        \A v \in Versions : ~contains(alg.out, v)

\* C10: two successful runs of resolve on the same provider, manifest, hints
\* and strategy return the same version for every package.
C10_Deterministic ==
    (outcome = "ok" /\ previous # None) =>
        \A n \in Names :
            /\ resolution[n] = None <=> Unwrap(previous)[n] = None
            /\ resolution[n] # None =>
                  Unwrap(resolution[n]).version =
                     Unwrap(Unwrap(previous)[n]).version

(***************************************************************************)
(* gust-fetch: Fetcher::fetch_many (SpecFetch, and SpecFetchLive with the   *)
(* executor's fairness).                                                   *)
(*                                                                         *)
(* fetch_many builds one future per input pair and hands them to join_all, *)
(* which polls them on the calling task.  A future suspends at             *)
(* sem.acquire().await and at the fetch's await; what lies between two     *)
(* suspension points runs without interleaving.  The model has one step    *)
(* from the acquire to the fetch's await (FetchStart) and one from the     *)
(* fetch's result to the end of the future (FetchFinish), where the permit *)
(* is dropped.  Whether a clone or a symlink succeeds is the environment's *)
(* and is drawn with the input (works).                                    *)
(*                                                                         *)
(* fetch is a record:                                                      *)
(*   deps         the input vector; the destination of a pair is Dest      *)
(*   concurrency  Fetcher.concurrency                                      *)
(*   permits      the semaphore's available permits                        *)
(*   task[i]      "waiting", "fetching" or "done"                          *)
(*   slots[i]     the output of future i, once it completed                *)
(*   progress     the calls on_progress received, in order                 *)
(*   finished     the indices of the futures in the order they completed   *)
(*   returned     the vector fetch_many returned, if it did                *)
(***************************************************************************)
MaxConcurrency == 2

\* (Dependency, dest) pairs by source kind; the packages of a batch differ.
FetchDep(name, source, works) ==
    [name |-> name, source |-> source, works |-> works]

DepsNamed(name) ==
    {FetchDep(name, "Git", TRUE), FetchDep(name, "Git", FALSE),
     FetchDep(name, "Registry", FALSE), FetchDep(name, "Path", TRUE)}

Batches ==
    {<<>>}
    \cup {<<x>> : x \in DepsNamed("p1")}
    \cup {<<x, y>> : x \in DepsNamed("p1"), y \in DepsNamed("p2")}
    \cup {<<x, y, z>> : x \in DepsNamed("p1"), y \in DepsNamed("p2"),
                        z \in DepsNamed("p3")}

Dest(dep) == <<"dest", dep.name>>

FetchOk(dep, revision) ==
    [ok |-> TRUE, name |-> Some(dep.name), path |-> Some(Dest(dep)),
     revision |-> revision, error |-> None]

FetchErr(error, package) ==
    [ok |-> FALSE, name |-> package, path |-> None, revision |-> None,
     error |-> Some(error)]

\* fetch_git_static / fetch_registry_static / fetch_path_static
fetch_static(dep) ==
    CASE dep.source = "Git" ->
            IF dep.works THEN FetchOk(dep, Some("HEAD"))
            ELSE FetchErr("GitError", None)
      [] dep.source = "Registry" -> FetchErr("FetchFailed", Some(dep.name))
      [] OTHER ->
            IF dep.works THEN FetchOk(dep, None)
            ELSE FetchErr("IoError", None)

\* The status the second callback reports for a result, with all outcomes
\* reported as Completed.
FetchStatus_completed(result) == "Completed"

\* The status the second callback reports for a result (lines 132-137).
FetchStatus(result) == IF result.ok THEN "Completed" ELSE "Failed"

\* A permit handed out without being taken from the semaphore.
acquire_untaken(permits) == permits

\* sem.acquire(): the permits left once one is taken.
acquire(permits) == permits - 1

\* The outputs in the order the futures completed.
join_all_as_completed(slots, finished) ==
    [k \in 1..Len(finished) |-> Unwrap(slots[finished[k]])]

\* join_all: the outputs in the order of the futures.
join_all(slots, finished) == [i \in 1..Len(slots) |-> Unwrap(slots[i])]

\* The callback skipped, as when progress.lock() returns Err.
on_progress_poisoned(progress, name, status) == progress

\* if let Ok(mut cb) = progress.lock() { cb(&name, status) }: the calls the
\* callback has received, with this one added.
on_progress(progress, name, status) == Append(progress, <<name, status>>)

FetchInit ==
    /\ \E deps \in Batches, c \in 0..MaxConcurrency :
          fetch = [op |-> "fetch_many", deps |-> deps, concurrency |-> c,
                   permits |-> c,
                   task |-> [i \in 1..Len(deps) |-> "waiting"],
                   slots |-> [i \in 1..Len(deps) |-> None],
                   progress |-> <<>>, finished |-> <<>>, returned |-> None]
    /\ AlgebraIdle /\ ChooseIdle /\ ResolverIdle
    /\ world = [strategy |-> "Highest"]
    /\ trace = [n \in Names |-> None]
    /\ CacheIdle /\ BinaryCacheIdle /\ BuildIdle /\ CliIdle

othersOfFetch ==
    <<alg, cv, world, trace, resolverVars, gcache, bcache, build, cli>>

\* Future i gets a permit and reports Started (lines 111-116).
FetchStart ==
    \E i \in 1..Len(fetch.deps) :
        /\ fetch.task[i] = "waiting"
        /\ fetch.permits > 0
        /\ fetch' = [fetch EXCEPT
              !.permits = acquire(fetch.permits),
              !.task[i] = "fetching",
              !.progress = on_progress(@, fetch.deps[i].name, "Started")]
        /\ UNCHANGED othersOfFetch

\* The fetch of future i ends: the result is reported and becomes the
\* future's output, and the permit is dropped (lines 119-140).
FetchFinish ==
    \E i \in 1..Len(fetch.deps) :
        /\ fetch.task[i] = "fetching"
        /\ \E result \in {fetch_static(fetch.deps[i])} :
              fetch' = [fetch EXCEPT
                 !.task[i] = "done",
                 !.slots[i] = Some(result),
                 !.progress = on_progress(@, fetch.deps[i].name,
                                          FetchStatus(result)),
                 !.finished = Append(@, i),
                 !.permits = @ + 1]
        /\ UNCHANGED othersOfFetch

\* join_all completes once every future has, and fetch_many returns.
FetchReturn ==
    /\ fetch.returned = None
    /\ \A i \in 1..Len(fetch.deps) : fetch.task[i] = "done"
    /\ fetch' = [fetch EXCEPT
          !.returned = Some(join_all(fetch.slots, fetch.finished))]
    /\ UNCHANGED othersOfFetch

FetchNext == FetchStart \/ FetchFinish \/ FetchReturn

SpecFetch == FetchInit /\ [][FetchNext]_vars

\* The executor keeps polling the futures that can proceed, and every fetch
\* comes to an end.
SpecFetchLive == FetchInit /\ [][FetchNext]_vars /\ WF_vars(FetchNext)

Reported(name, statuses) ==
    {k \in 1..Len(fetch.progress) :
        fetch.progress[k][1] = name /\ fetch.progress[k][2] \in statuses}

\* The inputs whose fetch was reported Started and not yet reported ended.
InFlight ==
    {i \in 1..Len(fetch.deps) :
        /\ Reported(fetch.deps[i].name, {"Started"}) # {}
        /\ Reported(fetch.deps[i].name, {"Completed", "Failed"}) = {}}

\* C12: at every moment the fetches started and not yet finished are at
\* most Fetcher.concurrency.
C12_ConcurrencyBound == Cardinality(InFlight) <= fetch.concurrency

\* The bound is met while another fetch waits for a permit.
C12_Witness ==
    /\ fetch.concurrency = 2
    /\ Cardinality(InFlight) = 2
    /\ \E i \in 1..Len(fetch.deps) : fetch.task[i] = "waiting"

\* Fetch i has failed.
FetchFailedAt(i) == fetch.slots[i] # None /\ ~Unwrap(fetch.slots[i]).ok

\* C13 (state part): a failed fetch is reported Failed, and the vector
\* fetch_many returns is full, holds the error in the failing slot, and
\* every fetch of the batch was started and ran to its result.
C13_FailureLeavesPeers ==
    \A i \in 1..Len(fetch.deps) :
        FetchFailedAt(i) =>
            /\ Reported(fetch.deps[i].name, {"Failed"}) # {}
            /\ Reported(fetch.deps[i].name, {"Completed"}) = {}
            /\ fetch.returned # None =>
                  /\ Len(Unwrap(fetch.returned)) = Len(fetch.deps)
                  /\ Unwrap(fetch.returned)[i] = Unwrap(fetch.slots[i])
                  /\ \A j \in 1..Len(fetch.deps) :
                        /\ Reported(fetch.deps[j].name, {"Started"}) # {}
                        /\ fetch.slots[j] = Some(fetch_static(fetch.deps[j]))

\* C13 (progress part): once a fetch of the batch has failed, fetch_many
\* goes on to return, and the state part holds throughout.
C13_FailureStillReturns ==
    /\ [](C13_FailureLeavesPeers)
    /\ (\E i \in 1..Len(fetch.deps) : FetchFailedAt(i))
          ~> (fetch.returned # None)

\* fetch_many returned after a fetch failed before another was started,
\* and the other succeeded.
C13_Witness ==
    /\ fetch.returned # None
    /\ Len(fetch.deps) = 2
    /\ FetchFailedAt(1)
    /\ Unwrap(fetch.slots[2]).ok
    /\ fetch.progress[2] = <<"p1", "Failed">>
    /\ fetch.progress[3] = <<"p2", "Started">>

\* The callback's calls for input i: those with Started, and those with
\* Completed or Failed.
StartedCalls(i) == Reported(fetch.deps[i].name, {"Started"})

EndedCalls(i) == Reported(fetch.deps[i].name, {"Completed", "Failed"})

\* C32 (state part): the callback receives Started at most once per
\* package and Completed or Failed at most once, only after Started and
\* only for packages of the batch; once fetch_many has returned it has
\* received exactly one of each for every package.  An invocation is one
\* element of progress: the callback runs under progress.lock() inside one
\* poll of a future.
C32_ProgressCalls ==
    /\ \A k \in 1..Len(fetch.progress) :
          \E i \in 1..Len(fetch.deps) :
              fetch.progress[k][1] = fetch.deps[i].name
    /\ \A i \in 1..Len(fetch.deps) :
          /\ Cardinality(StartedCalls(i)) <= 1
          /\ Cardinality(EndedCalls(i)) <= 1
          /\ \A e \in EndedCalls(i) : \E b \in StartedCalls(i) : b < e
          /\ fetch.returned # None =>
                /\ Cardinality(StartedCalls(i)) = 1
                /\ Cardinality(EndedCalls(i)) = 1

C35_FetchManyReturns ==
    <>(/\ fetch.returned # None
       /\ \A i \in 1..Len(fetch.deps) :
             StartedCalls(i) # {} /\ fetch.task[i] = "done")

(***************************************************************************)
(* gust-cache: GlobalCache, the content-addressed store (SpecCache with    *)
(* one caller, SpecCacheShared with two callers on the same store).        *)
(*                                                                         *)
(* store_bytes and store_file test dest.exists(), create the file          *)
(* (File::create and fs::copy truncate a file that is there) and write it; *)
(* the writes of write_all are separate system calls, and each caller      *)
(* writes at its own offset.  A write may fail and leave what was written. *)
(* link_file is taken as one step; its destination lies outside the store. *)
(*                                                                         *)
(* gcache is a record:                                                     *)
(*   files[p]    the content of the store file at path p, if it exists     *)
(*   linked      what link_file left at the destination, if anything       *)
(*   calls[t]    the call caller t is in: pc, op, data, hash, off          *)
(*   count       the calls started                                         *)
(*   returned    the hashes some store call has returned with Ok           *)
(*   first[d]    the hash the first successful store of content d returned *)
(*   clean       all calls so far returned Ok                              *)
(*   partial     the hashes whose store call failed after creating entry   *)
(*   lastlink    the last link_file call: its hash, whether it returned Ok, *)
(*               and what was at the destination before and after it       *)
(*   last        the last store call that returned Ok                      *)
(***************************************************************************)
MaxCalls == 3

\* The contents callers store; 0 is the byte of a hole in a file.
Datas == {<<>>, <<1>>, <<1, 2>>}

\* BLAKE3 as a collision-free digest, written as its hex characters.
Blake3(content) ==
    CASE content = <<>> -> <<"a", "f", "1">>
      [] content = <<1>> -> <<"a", "f", "2">>
      [] content = <<1, 2>> -> <<"2", "d", "3">>
      [] OTHER -> <<"0", "0", "0">>

Hashes == {Blake3(d) : d \in Datas}

\* GlobalCache::hash_bytes
hash_bytes(data) == Blake3(data)

\* hash_file with the digest taken before anything is read.
hash_file_unread(content) == Blake3(<<>>)

\* GlobalCache::hash_file, of a file with the given content
hash_file(content) == Blake3(content)

\* GlobalCache::content_path: files/<hash[..2]>/<hash>
content_path(hash) == <<"files", SubSeq(hash, 1, 2), hash>>

StorePaths ==
    {<<"files", SubSeq(g, 1, 2), h>> : g \in Hashes, h \in Hashes}

\* The files callers pass to store_file, and their contents.
SourcePaths == {"Sources/a.swift", "Sources/b.swift"}

SourceContent(path) == IF path = "Sources/a.swift" THEN <<1>> ELSE <<1, 2>>

\* The test of both store calls with the file always written.
MustWrite_always(files, dest) == TRUE

\* if !dest.exists()
MustWrite(files, dest) == files[dest] = None

\* A write of one byte at offset off (from 0) of a file with content c.
WriteAt(c, off, byte) ==
    [i \in 1..(IF Len(c) > off THEN Len(c) ELSE off + 1) |->
        IF i = off + 1 THEN byte ELSE IF i <= Len(c) THEN c[i] ELSE 0]

CallIdle == [pc |-> "idle"]

CacheOpened(callers) ==
    /\ gcache = [op |-> "open_at",
                 files |-> [p \in StorePaths |-> None],
                 linked |-> None,
                 calls |-> [t \in callers |-> CallIdle],
                 count |-> 0, returned |-> {},
                 first |-> [d \in Datas |-> None],
                 clean |-> TRUE, last |-> None, partial |-> {},
                 lastlink |-> None]
    /\ AlgebraIdle /\ ChooseIdle /\ ResolverIdle
    /\ world = [strategy |-> "Highest"]
    /\ trace = [n \in Names |-> None]
    /\ FetchIdle /\ BinaryCacheIdle /\ BuildIdle /\ CliIdle

othersOfCache ==
    <<alg, cv, world, trace, resolverVars, fetch, bcache, build, cli>>

Callers == DOMAIN gcache.calls

\* The call returns Ok(hash); g is the state it returns in.
CacheOk(g, t, call) ==
    gcache' = [g EXCEPT
        !.calls[t] = CallIdle,
        !.returned = @ \cup {call.hash},
        !.first[call.data] = IF @ = None THEN Some(call.hash) ELSE @,
        !.last = Some([call EXCEPT !.pc = "returned"])]

\* A store call up to its test of dest.exists(): it returns at once when
\* the entry is there and goes on to create it otherwise.  The call notes
\* whether it found the entry (existed) and counts the changes it makes to
\* store files (writes).
CacheBegin(t, op, data, hash) ==
    /\ gcache.calls[t].pc = "idle"
    /\ gcache.count < MaxCalls
    /\ \E g \in {[gcache EXCEPT !.count = @ + 1]},
          call \in {[pc |-> "create", op |-> op, data |-> data,
                     hash |-> hash, off |-> 0, writes |-> 0,
                     existed |-> gcache.files[content_path(hash)] # None]} :
          IF MustWrite(gcache.files, content_path(hash))
          THEN gcache' = [g EXCEPT !.calls[t] = call]
          ELSE CacheOk(g, t, call)
    /\ UNCHANGED othersOfCache

\* store_bytes(data), lines 140-147
StoreBytes ==
    \E t \in Callers, data \in Datas :
        CacheBegin(t, "store_bytes", data, hash_bytes(data))

\* store_file(path), lines 124-131
StoreFile ==
    \E t \in Callers, path \in SourcePaths :
        CacheBegin(t, "store_file", SourceContent(path),
                   hash_file(SourceContent(path)))

\* File::create(&dest), and the creation of dest by fs::copy
CacheCreate ==
    \E t \in Callers :
        /\ gcache.calls[t].pc = "create"
        /\ gcache' = [gcache EXCEPT
              !.files[content_path(gcache.calls[t].hash)] = Some(<<>>),
              !.calls[t].pc = "write",
              !.calls[t].writes = @ + 1]
        /\ UNCHANGED othersOfCache

\* One write of file.write_all(data), and of the copy loop of fs::copy
CacheWrite ==
    \E t \in Callers :
        LET c == gcache.calls[t]
            dest == content_path(c.hash)
        IN  /\ c.pc = "write"
            /\ c.off < Len(c.data)
            /\ gcache.files[dest] # None
            /\ gcache' = [gcache EXCEPT
                  !.files[dest] = Some(WriteAt(Unwrap(gcache.files[dest]),
                                               c.off, c.data[c.off + 1])),
                  !.calls[t].off = @ + 1,
                  !.calls[t].writes = @ + 1]
            /\ UNCHANGED othersOfCache

\* The store call has written everything and returns Ok(hash).
CacheReturn ==
    \E t \in Callers :
        LET c == gcache.calls[t]
        IN  /\ c.pc = "write"
            /\ c.off = Len(c.data)
            /\ CacheOk(gcache, t, c)
            /\ UNCHANGED othersOfCache

\* The creation or a write fails: the call returns Err(WriteError) and
\* leaves the file as it is.
CacheWriteError ==
    \E t \in Callers :
        /\ \/ gcache.calls[t].pc = "create"
           \/ /\ gcache.calls[t].pc = "write"
              /\ gcache.calls[t].off < Len(gcache.calls[t].data)
        /\ gcache' = [gcache EXCEPT
              !.calls[t] = CallIdle,
              !.clean = FALSE,
              !.partial = IF gcache.calls[t].pc = "write"
                          THEN @ \cup {gcache.calls[t].hash} ELSE @]
        /\ UNCHANGED othersOfCache

\* The record of a link_file call.
LinkCall(hash, ok, before, after) ==
    [hash |-> hash, ok |-> ok, before |-> before, after |-> after]

\* link_file(hash, dest) for a dest outside the store: the file at dest is
\* removed if there is one; then a hard link to the entry, or a copy of
\* what the entry holds when the link cannot be made; Err when there is no
\* entry to link or copy.
LinkFile ==
    \E t \in Callers, hash \in Hashes, hard \in BOOLEAN :
        /\ gcache.calls[t].pc = "idle"
        /\ gcache.count < MaxCalls
        /\ IF gcache.files[content_path(hash)] = None
           THEN gcache' = [gcache EXCEPT
                   !.count = @ + 1, !.clean = FALSE,
                   !.linked = None,
                   !.lastlink = Some(LinkCall(hash, FALSE, gcache.linked,
                                              None))]
           ELSE \E made \in {Some([hash |-> hash, hard |-> hard,
                                    copied |-> Unwrap(gcache.files[
                                                  content_path(hash)]),
                                    known |-> hash \in gcache.returned])} :
                gcache' = [gcache EXCEPT
                   !.count = @ + 1,
                   !.linked = made,
                   !.lastlink = Some(LinkCall(hash, TRUE, gcache.linked,
                                              made))]
        /\ UNCHANGED othersOfCache

CacheNext ==
    \/ StoreBytes \/ StoreFile \/ CacheCreate \/ CacheWrite \/ CacheReturn
    \/ CacheWriteError \/ LinkFile

CacheInit == CacheOpened({1})

CacheSharedInit == CacheOpened({1, 2})

SpecCache == CacheInit /\ [][CacheNext]_vars

SpecCacheShared == CacheSharedInit /\ [][CacheNext]_vars

\* No call is in progress.
CacheQuiet == \A t \in Callers : gcache.calls[t].pc = "idle"

\* The store file at path p is named after its content.
EntryMatches(p) ==
    /\ p[2] = SubSeq(p[3], 1, 2)
    /\ Blake3(Unwrap(gcache.files[p])) = p[3]

\* C14: once a sequence of store_bytes, store_file and link_file calls
\* that all returned Ok is over, every file files/<prefix>/<hash> of the
\* store has content whose BLAKE3 hash is <hash>, and <prefix> is the first
\* two characters of <hash>.
C14_EntriesMatchHash ==
    (gcache.clean /\ CacheQuiet) =>
        \A p \in StorePaths : gcache.files[p] # None => EntryMatches(p)

\* Two entries under the same prefix, stored by store_file and store_bytes,
\* and one of them linked.
C14_Witness ==
    /\ gcache.clean /\ CacheQuiet
    /\ gcache.files[content_path(Blake3(<<>>))] # None
    /\ gcache.files[content_path(Blake3(<<1>>))] # None
    /\ gcache.linked # None
    /\ Unwrap(gcache.last).op = "store_file"

\* C15: a store_bytes or store_file call that finds the entry of its
\* content in the store returns the hash the first store of that content
\* returned and changes no store file.
C15_StoreIdempotent ==
    (gcache.last # None /\ Unwrap(gcache.last).existed) =>
        /\ Unwrap(gcache.last).writes = 0
        /\ gcache.first[Unwrap(gcache.last).data]
              = Some(Unwrap(gcache.last).hash)

\* store_file finds the entry an earlier store_bytes wrote.
C15_Witness ==
    /\ gcache.clean
    /\ gcache.last # None
    /\ Unwrap(gcache.last).existed
    /\ Unwrap(gcache.last).op = "store_file"
    /\ gcache.count = 2

\* The entry of hash h holds the whole content that hashes to h.
EntryComplete(h) ==
    /\ gcache.files[content_path(h)] # None
    /\ Blake3(Unwrap(gcache.files[content_path(h)])) = h

\* What a reader of the link_file destination finds: the entry itself
\* through a hard link, the bytes copied otherwise.
LinkedContent ==
    IF Unwrap(gcache.linked).hard
    THEN Unwrap(gcache.files[content_path(Unwrap(gcache.linked).hash)])
    ELSE Unwrap(gcache.linked).copied

\* C16: with callers storing the same data concurrently and every call
\* returning Ok, a hash is returned only when its entry holds the complete
\* data and the entry stays complete, and a file linked from a returned
\* hash holds the complete data.
C16_ReturnedHashComplete ==
    gcache.clean =>
        /\ \A h \in gcache.returned : EntryComplete(h)
        /\ (gcache.linked # None /\ Unwrap(gcache.linked).known) =>
              Blake3(LinkedContent) = Unwrap(gcache.linked).hash

\* C31: when a store_bytes call has failed after creating the entry file
\* and before all bytes were written, the next store_bytes of the same data
\* that returns Ok leaves the entry holding the complete data, which hashes
\* to its key.
C31_PartialEntryRewritten ==
    \A call \in gcache.last :
        (CacheQuiet /\ call.op = "store_bytes"
            /\ call.hash \in gcache.partial) => EntryComplete(call.hash)

\* C40: a link_file call for a hash that is not in the store returns an
\* error and leaves a file that was at dest as it was; a call that returns
\* Ok leaves at dest the content the store holds for the hash, whatever
\* was at dest before.
C40_LinkFileKeepsDest ==
    \A l \in gcache.lastlink :
        /\ ~l.ok => l.after = l.before
        /\ l.ok => /\ gcache.linked = l.after
                   /\ Unwrap(l.after).hash = l.hash
                   /\ gcache.files[content_path(l.hash)] # None
                   /\ LinkedContent
                         = Unwrap(gcache.files[content_path(l.hash)])


(***************************************************************************)
(* gust-binary-cache: LocalBinaryCache (SpecBinaryCache).                  *)
(*                                                                         *)
(* One fingerprint, one writer calling store and one reader calling        *)
(* contains, get and restore on the same cache directory.  store packs the *)
(* source directory and writes the archive with fs::write under its final  *)
(* name: the file is created empty and filled by successive writes.        *)
(* restore reads whatever the file holds at that moment.                   *)
(*                                                                         *)
(* A directory is a function from file names to contents (None: no such    *)
(* file).  bcache is a record:                                             *)
(*   archive   the bytes of <fingerprint>.tar.zst, if the file exists      *)
(*   writer    the store call in progress: pc, source, data, off           *)
(*   stored    the source directory of the last store that returned Ok     *)
(*   dest      the directory restore unpacks into                          *)
(*   found     the last answer of contains or get, with the file it named  *)
(*   restored  the last restore: what it read, how it ended, and the       *)
(*             directory before and after                                  *)
(*   ops       the calls started                                           *)
(***************************************************************************)
MaxOps == 3

FileNames == {"a.o", "b.o"}

Dirs == [FileNames -> {None, Some(1), Some(2)}]

\* The file names in ascending order, as tar::Builder::append_dir_all
\* meets them.
FileOrder == <<"a.o", "b.o">>

Present(dir) == SelectSeq(FileOrder, LAMBDA f : dir[f] # None)

\* The end-of-archive blocks of a tar stream.
TarEnd == [path |-> "", content |-> 0]

\* tar::Builder: one entry per file, and the end-of-archive blocks.
pack(dir) ==
    [i \in 1..Len(Present(dir)) |->
        [path |-> Present(dir)[i], content |-> Unwrap(dir[Present(dir)[i]])]]
    \o <<TarEnd>>

\* zstd::encode_all and zstd::decode_all, block by block
encode_all(tar) == [i \in 1..Len(tar) |-> <<"zstd", tar[i]>>]

decode_all(bytes) == [i \in 1..Len(bytes) |-> bytes[i][2]]

\* The archive file holds everything store had to write.
Complete(bytes) == Len(bytes) > 0 /\ bytes[Len(bytes)] = <<"zstd", TarEnd>>

\* tar::Archive::unpack(dest): every entry is written into dest, over a
\* file of the same name; the other files of dest stay.
unpack(tar, dest) ==
    [f \in FileNames |->
        IF \E i \in 1..Len(tar) : tar[i].path = f
        THEN Some((CHOOSE e \in {tar[i] : i \in 1..Len(tar)} :
                      e.path = f).content)
        ELSE dest[f]]

WriterIdle == [pc |-> "idle"]

BinaryCacheInit ==
    /\ \E dest \in Dirs :
          bcache = [op |-> "new", archive |-> None, writer |-> WriterIdle,
                    stored |-> None, dest |-> dest, found |-> None,
                    restored |-> None, ops |-> 0]
    /\ AlgebraIdle /\ ChooseIdle /\ ResolverIdle
    /\ world = [strategy |-> "Highest"]
    /\ trace = [n \in Names |-> None]
    /\ FetchIdle /\ CacheIdle /\ BuildIdle /\ CliIdle

othersOfBinaryCache ==
    <<alg, cv, world, trace, resolverVars, fetch, gcache, build, cli>>

\* store(fingerprint, source) up to the exists test (lines 284-292): Ok at
\* once when the archive file is there, else the archive is built.
BinaryStore ==
    \E source \in Dirs :
        /\ bcache.writer.pc = "idle"
        /\ bcache.ops < MaxOps
        /\ IF bcache.archive # None
           THEN bcache' = [bcache EXCEPT !.ops = @ + 1,
                                         !.stored = Some(source)]
           ELSE bcache' = [bcache EXCEPT
                   !.ops = @ + 1,
                   !.writer = [pc |-> "create", source |-> source,
                               data |-> encode_all(pack(source)),
                               off |-> 0]]
        /\ UNCHANGED othersOfBinaryCache

\* fs::write(&dest, &compressed): the file is created, or truncated.
BinaryCreate ==
    /\ bcache.writer.pc = "create"
    /\ bcache' = [bcache EXCEPT !.archive = Some(<<>>),
                                !.writer.pc = "write"]
    /\ UNCHANGED othersOfBinaryCache

\* fs::write(&dest, &compressed): one write.
BinaryWrite ==
    /\ bcache.writer.pc = "write"
    /\ bcache.writer.off < Len(bcache.writer.data)
    /\ bcache' = [bcache EXCEPT
          !.archive = Some(Append(Unwrap(@),
                                  bcache.writer.data[bcache.writer.off + 1])),
          !.writer.off = @ + 1]
    /\ UNCHANGED othersOfBinaryCache

\* store returns Ok(()) after the last write.
BinaryStored ==
    /\ bcache.writer.pc = "write"
    /\ bcache.writer.off = Len(bcache.writer.data)
    /\ bcache' = [bcache EXCEPT !.writer = WriterIdle,
                                !.stored = Some(bcache.writer.source)]
    /\ UNCHANGED othersOfBinaryCache

\* contains(fingerprint) and get(fingerprint): whether the file exists.
BinaryLookup ==
    \E call \in {"contains", "get"} :
        /\ bcache.ops < MaxOps
        /\ bcache' = [bcache EXCEPT
              !.ops = @ + 1,
              !.found = Some([call |-> call,
                              hit |-> bcache.archive # None,
                              file |-> bcache.archive])]
        /\ UNCHANGED othersOfBinaryCache

\* What a restore leaves on record: the bytes it read, the directory before
\* and after, the last store that had returned, and how it ended.
Restored(result, after) ==
    Some([read |-> bcache.archive, before |-> bcache.dest,
          stored |-> bcache.stored, outcome |-> result, after |-> after])

\* restore(fingerprint, dest), lines 261-281.  A file that is not a whole
\* zstd stream fails to decode; an empty file may decode to an empty
\* archive.
BinaryRestore ==
    /\ bcache.ops < MaxOps
    /\ IF bcache.archive = None
       THEN bcache' = [bcache EXCEPT
               !.ops = @ + 1,
               !.restored = Restored("CacheMiss", bcache.dest)]
       ELSE IF Complete(Unwrap(bcache.archive))
       THEN \E d \in {unpack(decode_all(Unwrap(bcache.archive)),
                             bcache.dest)} :
               bcache' = [bcache EXCEPT
                  !.ops = @ + 1, !.dest = d, !.restored = Restored("Ok", d)]
       ELSE \E o \in (IF Unwrap(bcache.archive) = <<>>
                      THEN {"DecompressionError", "Ok"}
                      ELSE {"DecompressionError"}) :
               bcache' = [bcache EXCEPT
                  !.ops = @ + 1, !.restored = Restored(o, bcache.dest)]
    /\ UNCHANGED othersOfBinaryCache

BinaryCacheNext ==
    \/ BinaryStore \/ BinaryCreate \/ BinaryWrite \/ BinaryStored
    \/ BinaryLookup \/ BinaryRestore

SpecBinaryCache == BinaryCacheInit /\ [][BinaryCacheNext]_vars

\* C17: whenever store runs beside contains, get and restore for the same
\* fingerprint, a reader finds no archive (CacheMiss) or the complete
\* archive: the file contains and get report, and the bytes restore reads,
\* are never a partially written archive.
C17_NoPartialArchive ==
    /\ (bcache.found # None /\ Unwrap(bcache.found).hit) =>
          Complete(Unwrap(Unwrap(bcache.found).file))
    /\ bcache.restored # None =>
          \/ /\ Unwrap(bcache.restored).outcome = "CacheMiss"
             /\ Unwrap(bcache.restored).read = None
          \/ /\ Unwrap(bcache.restored).outcome = "Ok"
             /\ Complete(Unwrap(Unwrap(bcache.restored).read))

\* C18: a restore that follows a store(fp, dirA) that returned Ok, and
\* returns Ok itself, leaves its destination with exactly the files and
\* contents of dirA, whatever the destination held before.
C18_RestoreEqualsStored ==
    (/\ bcache.restored # None
     /\ Unwrap(bcache.restored).outcome = "Ok"
     /\ Unwrap(bcache.restored).stored # None) =>
        Unwrap(bcache.restored).after = Unwrap(Unwrap(bcache.restored).stored)


(***************************************************************************)
(* gust-build: Builder::compute_fingerprint (SpecBuild).                   *)
(*                                                                         *)
(* A project directory holds the sources of the target App in one of the   *)
(* recognised source directories, a manifest file, possibly Gust.lock, and *)
(* the manifest's dependency map.  The fingerprint is computed from that   *)
(* state; the manifest's dependencies are a HashMap, whose keys() are met  *)
(* in an order that differs from one process to the next.                  *)
(*                                                                         *)
(* build is a record:                                                      *)
(*   project   the project directory and the manifest                      *)
(*   computed  the fingerprints computed for the project as it is          *)
(*   before    the fingerprints computed before the last source edit       *)
(***************************************************************************)
\* The directories a target's sources may live in, relative to the project.
SourceDirs ==
    {<<"Sources", "App">>, <<"Source", "App">>, <<"src", "App">>, <<"App">>,
     <<"Sources">>}

\* A file of the project: its directory, name, extension and content.
ProjectFile(dir, name, ext, content) ==
    [dir |-> dir, name |-> name, ext |-> ext, content |-> content]

\* The projects drawn: main.swift and README.md in the source directory.
Projects ==
    {[files |-> {ProjectFile(d, "main.swift", "swift", c),
                 ProjectFile(d, "README.md", "md", 1)},
      manifest_file |-> m, lockfile |-> l, dependencies |-> deps] :
        d \in SourceDirs, c \in {1, 2},
        m \in {"Package.swift", "Gust.toml", "none"},
        l \in {None, Some("lock")},
        deps \in SUBSET {"swift-log", "swift-nio"}}

\* blake3::hash of a byte string, as a collision-free digest of what was
\* fed to the hasher.
Digest(input) == <<"blake3", input>>

IsPrefix(dir, path) ==
    Len(dir) <= Len(path) /\ SubSeq(path, 1, Len(dir)) = dir

\* collect_files of hash_sources: the source files below dir (lines
\* 395-421); the drawn names are neither hidden nor Package.resolved.
collect_files(project, dir) ==
    {f \in project.files :
        /\ IsPrefix(dir, f.dir)
        /\ f.ext \in {"swift", "h", "c", "cpp", "m", "mm"}}

\* hash_sources(dir): the BTreeMap from relative path to content digest of
\* the collected files, fed to one hasher in the map's order, which the
\* map's content fixes (lines 423-450).  A directory that does not exist
\* yields the digest of the empty map.
hash_sources(project, dir) ==
    LET rel(f) == SubSeq(f.dir, Len(dir) + 1, Len(f.dir)) \o <<f.name>>
    IN  Digest({<<rel(f), ":", Digest(<<f.content>>), "\n">> :
                   f \in collect_files(project, dir)})

\* The source hash of compute_fingerprint (lines 124-127).
source_hash(project) == hash_sources(project, <<"Sources">>)

\* The manifest hash (lines 129-142).
manifest_hash(project) ==
    IF project.manifest_file = "none" THEN ""
    ELSE Digest(<<project.manifest_file>>)

\* The dependency hash (lines 144-154): the lockfile's digest, or the
\* digest of the debug print of manifest.dependencies.keys() as met.
deps_hash(project, keys) ==
    IF project.lockfile # None THEN Digest(<<Unwrap(project.lockfile)>>)
    ELSE Digest(<<"[", keys, "]">>)

\* BuildFingerprint::compute: every part fed to one hasher.
BuildFingerprint_compute(src, manifest, deps, swift, platform, config, flags) ==
    Digest(<<src, manifest, deps, swift, platform, config>> \o flags)

\* Builder::compute_fingerprint for a debug build without extra flags.
compute_fingerprint(project, keys) ==
    BuildFingerprint_compute(source_hash(project), manifest_hash(project),
                             deps_hash(project, keys), "6.0", "macos-arm64",
                             "debug", <<>>)

BuildInit ==
    /\ \E project \in Projects :
          build = [op |-> "new", project |-> project, computed |-> {},
                   before |-> None]
    /\ AlgebraIdle /\ ChooseIdle /\ ResolverIdle
    /\ world = [strategy |-> "Highest"]
    /\ trace = [n \in Names |-> None]
    /\ FetchIdle /\ CacheIdle /\ BinaryCacheIdle /\ CliIdle

othersOfBuild ==
    <<alg, cv, world, trace, resolverVars, fetch, gcache, bcache, cli>>

\* One call of compute_fingerprint, in some process.
ComputeFingerprint ==
    /\ \E keys \in Orders(build.project.dependencies) :
          build' = [build EXCEPT
              !.computed = @ \cup {compute_fingerprint(build.project, keys)}]
    /\ UNCHANGED othersOfBuild

\* The content of a source file of the project changes.
EditSource ==
    /\ \E f \in {g \in build.project.files : g.ext = "swift"},
          c \in {1, 2} :
          /\ c # f.content
          /\ build' = [build EXCEPT
                !.project.files = (@ \ {f}) \cup {[f EXCEPT !.content = c]},
                !.before = Some(build.computed),
                !.computed = {}]
    /\ UNCHANGED othersOfBuild

BuildNext == ComputeFingerprint \/ EditSource

SpecBuild == BuildInit /\ [][BuildNext]_vars

\* C19: all fingerprints computed for one project state are equal, in
\* whichever process they are computed, with or without a lockfile.
C19_FingerprintStable == Cardinality(build.computed) <= 1

\* C20: a fingerprint computed after the content of a source file changed
\* differs from every fingerprint computed before the change, in each of
\* the recognised source directories.
C20_SourceChangeChangesFingerprint ==
    build.before # None => Unwrap(build.before) \cap build.computed = {}

(***************************************************************************)
(* gust: Installer::install (SpecInstall, SpecInstallLive).                *)
(*                                                                         *)
(* Packages are numbered.  A world says what the project's manifest and    *)
(* the remote repositories hold: the direct dependencies, the Dependency   *)
(* every manifest gives for a package, each package's own dependencies,    *)
(* and which repositories can be cloned.  Every repository has the tags    *)
(* of RemoteTags, whose manifests declare the version of the tag, and a    *)
(* HEAD whose manifest declares HeadVersion.                               *)
(*                                                                         *)
(* install is a record:                                                    *)
(*   world      the manifest and the remotes                               *)
(*   frozen     InstallOptions.frozen                                      *)
(*   existing   Gust.lock as found, None when there is none                *)
(*   pc         "start", "resolve", "resolved", "fetched", "linked",       *)
(*              "done"                                                     *)
(*   result     "running", "ok", "err"                                     *)
(*   pending    pending_deps of the discovery loop                         *)
(*   iteration  iteration of the discovery loop                            *)
(*   warned     whether the maximum-depth warning was logged               *)
(*   packages   Resolution.packages                                        *)
(*   checkouts  the Store's git directory: package -> checkout             *)
(*   cloned     the clones made by this install: package -> HEAD commit    *)
(*   failed     the packages a fetch of this install failed for            *)
(*   results    fetch_results of fetch_packages                            *)
(*   linked     the packages linked into .build/checkouts                  *)
(*   written    the lockfile written by update_lockfile                    *)
(***************************************************************************)
MAX_ITERATIONS == 20

Pkgs == 1..(MAX_ITERATIONS + 2)

RemoteTags == {1, 2}

\* The manifest at HEAD declares the newest tagged version.
HeadVersion == CHOOSE v \in RemoteTags : \A u \in RemoteTags : u <= v

\* A Dependency of a manifest: its source kind, and the tag it asks for.
ManifestDep(kind, tag) == [kind |-> kind, tag |-> tag, revision |-> None]

\* The commit a reference of a package's repository points to.
Commit(name, ref) == <<"sha", name, ref>>

HeadRef == <<"HEAD">>

\* Every package is a git dependency without a tag, and can be cloned.
GitWorld(direct, deps) ==
    [manifest |-> direct,
     deps |-> deps,
     dep |-> [n \in Pkgs |-> ManifestDep("Git", None)],
     reachable |-> Pkgs]

\* 1 -> 2 -> ... -> len.
Chain(len) ==
    GitWorld(IF len = 0 THEN {} ELSE {1},
             [n \in Pkgs |-> IF n < len THEN {n + 1} ELSE {}])

Edges(deps) == [n \in Pkgs |-> IF n \in DOMAIN deps THEN deps[n] ELSE {}]

Cycle == GitWorld({1}, Edges(<<{2}, {1}>>))

SelfCycle == GitWorld({1}, Edges(<<{1}>>))

Diamond == GitWorld({1}, Edges(<<{2, 3}, {4}, {4}, {}>>))

Pair == GitWorld({1, 2}, Edges(<<{3}, {}, {}>>))

InstallWorlds ==
    {Chain(len) : len \in 0..(MAX_ITERATIONS + 2)}
    \cup {Cycle, SelfCycle, Diamond, Pair}
    \cup {[Pair EXCEPT !.reachable = Pkgs \ {u}] : u \in {1, 2, 3}}
    \cup {[Pair EXCEPT !.dep[n] = ManifestDep(k, None)] :
             n \in {2, 3}, k \in {"Path", "Registry"}}
    \cup {[Pair EXCEPT !.dep[1] = ManifestDep("Git", Some(t))] :
             t \in RemoteTags}

\* A LockedPackage of Gust.lock.
LockedPackage(name, version, revision, requires) ==
    [name |-> name, version |-> version, kind |-> "Git",
     revision |-> revision, dependencies |-> requires]

\* The lockfiles drawn: none, or one an earlier install wrote; the last
\* locks package 1 at the commit a clone of HEAD was at.
Lockfiles ==
    {None,
     Some({LockedPackage(1, 1, Commit(1, 1), {})}),
     Some({LockedPackage(1, HeadVersion, Commit(1, 0), {})}),
     Some({LockedPackage(1, 1, Commit(1, 1), {3}),
           LockedPackage(2, 2, Commit(2, 2), {}),
           LockedPackage(3, 1, Commit(3, 1), {})})}

\* A checkout in the Store: the version its manifest declares and the
\* commit it is at (None for a path dependency's symlink).
Checkout(version, commit) == [version |-> version, commit |-> commit]

\* The Store as found: empty, or holding package 1 from an earlier install.
StoresFound ==
    {[n \in Pkgs |-> None],
     [n \in Pkgs |-> IF n = 1 THEN Some(Checkout(1, Some(Commit(1, 1))))
                     ELSE None]}

\* git clone --depth 1 [--branch tag] and git rev-parse HEAD: the checkout,
\* or None when the clone fails.
clone_with_git(w, name, tag) ==
    IF name \in w.reachable /\ (tag = None \/ Unwrap(tag) \in RemoteTags)
    THEN Some(Checkout(IF tag = None THEN HeadVersion ELSE Unwrap(tag),
                       Some(Commit(name,
                                   IF tag = None THEN 0 ELSE Unwrap(tag)))))
    ELSE None

\* One fetch of fetch_many by source kind: what is at the destination
\* afterwards, None when the fetch failed.
fetch_dep(w, name, kind, tag) ==
    CASE kind = "Git" -> clone_with_git(w, name, tag)
      [] kind = "Path" -> Some(Checkout(1, None))
      [] OTHER -> None

\* ResolvedDep with its ResolvedSource.
ResolvedDep(version, kind, revision, tag, requires) ==
    [version |-> version, kind |-> kind, revision |-> revision, tag |-> tag,
     dependencies |-> requires]

resolution_from_lockfile_unversioned(lockfile) ==
    [n \in {p.name : p \in lockfile} |->
        LET pkg == CHOOSE p \in lockfile : p.name = n
        IN  ResolvedDep(0, pkg.kind, pkg.revision, None, pkg.dependencies)]

\* resolution_from_lockfile: every locked package at its locked version,
\* the tag derived from the version.
resolution_from_lockfile(lockfile) ==
    [n \in {p.name : p \in lockfile} |->
        LET pkg == CHOOSE p \in lockfile : p.name = n
        IN  ResolvedDep(pkg.version, pkg.kind, pkg.revision,
                        IF pkg.version # 0 THEN Some(pkg.version) ELSE None,
                        pkg.dependencies)]

LoopContinues_unbounded(pending, iteration) == pending # {}

\* The condition of the discovery loop (line 184).
LoopContinues(pending, iteration) ==
    pending # {} /\ iteration < MAX_ITERATIONS

\* f with the entries of g added or replaced.
Inserted(f, g) ==
    [n \in DOMAIN f \cup DOMAIN g |-> IF n \in DOMAIN g THEN g[n] ELSE f[n]]

InstallInit ==
    /\ \E w \in InstallWorlds, frozen \in BOOLEAN,
          existing \in Lockfiles, found \in StoresFound :
          install = [op |-> "install", world |-> w, frozen |-> frozen,
                     existing |-> existing, pc |-> "start",
                     result |-> "running", pending |-> {}, iteration |-> 0,
                     warned |-> FALSE, packages |-> <<>>,
                     checkouts |-> found, cloned |-> <<>>, failed |-> {},
                     results |-> <<>>, linked |-> {}, written |-> None]
    /\ AlgebraIdle /\ ChooseIdle /\ ResolverIdle
    /\ world = [strategy |-> "Highest"]
    /\ trace = [n \in Names |-> None]
    /\ FetchIdle /\ CacheIdle /\ BinaryCacheIdle /\ BuildIdle
    /\ LinksIdle /\ TagsIdle /\ WorkspaceIdle

othersOfInstall ==
    <<alg, cv, world, trace, resolverVars, fetch, gcache, bcache, build,
      links, tags, workspace>>

\* install up to the discovery loop: the manifest is read, the lockfile
\* looked for, and resolve takes its frozen branch or queues the direct
\* dependencies (lines 67-85, 163-182).
InstallStart ==
    /\ install.op = "install" /\ install.pc = "start"
    /\ install' =
          IF install.frozen
          THEN IF install.existing # None
               THEN [install EXCEPT
                       !.pc = "resolved",
                       !.packages =
                           resolution_from_lockfile(Unwrap(install.existing))]
               ELSE [install EXCEPT !.pc = "done", !.result = "err"]
          ELSE [install EXCEPT !.pc = "resolve",
                               !.pending = install.world.manifest]
    /\ UNCHANGED othersOfInstall

\* One iteration of the discovery loop (lines 184-309): fetch what is not
\* in the Store, parse the manifests that are there, insert the parsed
\* packages, queue the dependencies they name.
Discover ==
    /\ install.op = "install" /\ install.pc = "resolve"
    /\ LoopContinues(install.pending, install.iteration)
    /\ \E w \in {install.world} :
       \E pend \in {{n \in install.pending : n \notin DOMAIN install.packages}} :
       \E to_fetch \in {{n \in pend : install.checkouts[n] = None}} :
       \E after \in {[n \in Pkgs |->
                        IF n \in to_fetch
                        THEN fetch_dep(w, n, w.dep[n].kind, w.dep[n].tag)
                        ELSE install.checkouts[n]]} :
       \E parsed \in {{n \in pend : after[n] # None}} :
       \E packages \in {Inserted(install.packages,
             [n \in parsed |->
                 ResolvedDep(Unwrap(after[n]).version, w.dep[n].kind,
                             IF w.dep[n].revision # None
                             THEN Unwrap(w.dep[n].revision) ELSE HeadRef,
                             w.dep[n].tag, w.deps[n])])} :
          install' =
             IF pend = {}
             THEN [install EXCEPT !.iteration = @ + 1, !.pending = {}]
             ELSE [install EXCEPT
                     !.iteration = @ + 1,
                     !.checkouts = after,
                     !.cloned = Inserted(@,
                         [n \in {m \in to_fetch : after[m] # None
                                    /\ Unwrap(after[m]).commit # None} |->
                             Unwrap(Unwrap(after[n]).commit)]),
                     !.failed = @ \cup {n \in to_fetch : after[n] = None},
                     !.packages = packages,
                     !.pending =
                         {d \in UNION {w.deps[n] : n \in parsed} :
                             /\ d \notin DOMAIN packages
                             /\ w.dep[d].kind \in {"Git", "Path"}}]
    /\ UNCHANGED othersOfInstall

\* The discovery loop is left: the warning, and the Resolution returned
\* (lines 311-315).
ResolveReturn ==
    /\ install.op = "install" /\ install.pc = "resolve"
    /\ ~LoopContinues(install.pending, install.iteration)
    /\ install' = [install EXCEPT
                     !.pc = "resolved",
                     !.warned = install.iteration >= MAX_ITERATIONS]
    /\ UNCHANGED othersOfInstall

\* install with an empty Resolution (lines 86-97).
NothingToInstall ==
    /\ install.op = "install" /\ install.pc = "resolved"
    /\ DOMAIN install.packages = {}
    /\ install' = [install EXCEPT !.pc = "done", !.result = "ok"]
    /\ UNCHANGED othersOfInstall

\* fetch_packages: a package whose destination exists counts as cached,
\* with no revision; the others are fetched, and any error fails the
\* install (lines 357-492).
FetchPackages ==
    /\ install.op = "install" /\ install.pc = "resolved"
    /\ DOMAIN install.packages # {}
    /\ \E w \in {install.world}, pkgs \in {install.packages} :
       \E cached \in {{n \in DOMAIN pkgs : /\ pkgs[n].kind # "Registry"
                                           /\ install.checkouts[n] # None}} :
       \E to_fetch \in {{n \in DOMAIN pkgs : /\ pkgs[n].kind # "Registry"
                                             /\ install.checkouts[n] = None}} :
       \E after \in {[n \in Pkgs |->
                        IF n \in to_fetch
                        THEN fetch_dep(w, n, pkgs[n].kind, pkgs[n].tag)
                        ELSE install.checkouts[n]]} :
       \E errors \in {{n \in to_fetch : after[n] = None}} :
          install' = [install EXCEPT
              !.checkouts = after,
              !.cloned = Inserted(@,
                  [n \in {m \in to_fetch : after[m] # None
                             /\ Unwrap(after[m]).commit # None} |->
                      Unwrap(Unwrap(after[n]).commit)]),
              !.failed = @ \cup errors,
              !.results =
                  IF errors # {} THEN @
                  ELSE [n \in cached \cup to_fetch |->
                           [revision |-> IF n \in cached THEN None
                                         ELSE Unwrap(after[n]).commit]],
              !.pc = IF errors # {} THEN "done" ELSE "fetched",
              !.result = IF errors # {} THEN "err" ELSE @]
    /\ UNCHANGED othersOfInstall

\* link_packages: one link for every fetch result (lines 495-528); the
\* checkouts directory of the project holds nothing in the way.
LinkPackages ==
    /\ install.op = "install" /\ install.pc = "fetched"
    /\ install' = [install EXCEPT !.pc = "linked",
                                  !.linked = DOMAIN install.results]
    /\ UNCHANGED othersOfInstall

\* The packages update_lockfile builds (lines 541-587): path packages are
\* left out; the revision is that of the fetch result, or else that of
\* the resolved source.
new_packages(pkgs, results) ==
    {[name |-> n,
      version |-> IF pkgs[n].tag # None THEN Unwrap(pkgs[n].tag)
                  ELSE pkgs[n].version,
      kind |-> pkgs[n].kind,
      revision |-> IF n \in DOMAIN results /\ results[n].revision # None
                   THEN Unwrap(results[n].revision)
                   ELSE pkgs[n].revision,
      dependencies |-> pkgs[n].dependencies] :
        n \in {m \in DOMAIN pkgs : pkgs[m].kind # "Path"}}

\* Lockfile::needs_update and Lockfile::merge against an existing
\* lockfile: nothing is written when the packages are those of the
\* existing lockfile; otherwise the new packages are.
merged(existing, packages) ==
    IF existing = packages THEN None ELSE Some(packages)

\* update_lockfile and the end of install (lines 120-148, 589-625).
UpdateLockfile ==
    /\ install.op = "install" /\ install.pc = "linked"
    /\ install' = [install EXCEPT
          !.pc = "done",
          !.result = "ok",
          !.written =
              IF install.existing = None
              THEN Some(new_packages(install.packages, install.results))
              ELSE merged(Unwrap(install.existing),
                          new_packages(install.packages, install.results))]
    /\ UNCHANGED othersOfInstall

InstallNext ==
    \/ InstallStart
    \/ Discover
    \/ ResolveReturn
    \/ NothingToInstall
    \/ FetchPackages
    \/ LinkPackages
    \/ UpdateLockfile

SpecInstall == InstallInit /\ [][InstallNext]_vars

\* install is one task that runs to its end: no step of it waits for
\* another task.
SpecInstallLive == SpecInstall /\ WF_vars(InstallNext)

\* The install has left Installer::resolve.
Resolved == install.pc \notin {"start", "resolve"}

LockedNames == {p.name : p \in Unwrap(install.existing)}

Compatible(dep, version) == dep.tag = None \/ dep.tag = Some(version)

\* C22: in a normal install with a lockfile, a resolved package whose
\* locked version is compatible with the manifest's requirement is
\* resolved to the locked version.
C22_LockedVersionKept ==
    ~install.frozen /\ install.existing # None /\ Resolved =>
        \A p \in Unwrap(install.existing) :
            /\ p.name \in DOMAIN install.packages
            /\ Compatible(install.world.dep[p.name], p.version)
            => install.packages[p.name].version = p.version

\* C23: the discovery loop makes at most MAX_ITERATIONS iterations, is
\* left only with a Resolution, and is left eventually, for every graph.
C23_DiscoveryTerminates ==
    /\ [](install.iteration <= MAX_ITERATIONS)
    /\ [][install.pc = "resolve"
             => install'.pc \in {"resolve", "resolved"}]_vars
    /\ (install.pc = "resolve" ~> install.pc = "resolved")

C23_Witness ==
    /\ install.pc = "resolved" /\ install.iteration = MAX_ITERATIONS
    /\ install.pending # {}

\* C24: an install during which a fetch failed does not return success,
\* and a normal install that returns success has fetched and linked every
\* dependency the manifest declares.
C24_FetchFailureReported ==
    install.pc = "done" /\ install.result = "ok" =>
        /\ install.failed = {}
        /\ ~install.frozen =>
              install.world.manifest \subseteq
                  (DOMAIN install.results \cap install.linked)

\* C29: the revision the lockfile records for a package this install
\* cloned is the HEAD commit of the clone.
C29_LockedRevisionIsHead ==
    install.pc = "done" /\ install.written # None =>
        \A p \in Unwrap(install.written) :
            p.name \in DOMAIN install.cloned
            => p.revision = install.cloned[p.name]

\* C30: the maximum-depth warning is logged exactly when the discovery
\* loop is left with dependencies still pending.
C30_WarningOnlyWhenBoundHit ==
    ~install.frozen /\ Resolved =>
        (install.warned <=> install.pending # {})

\* C34: after a successful install the checkout linked for a git
\* dependency the manifest requests at a tag is at that tag, also when the
\* Store held a checkout under the package's name before the install.
C34_LinkedAtRequestedTag ==
    install.pc = "done" /\ install.result = "ok" /\ ~install.frozen =>
        \A n \in install.world.manifest \cap install.linked :
            \A tag \in install.world.dep[n].tag :
                install.world.dep[n].kind = "Git" =>
                    /\ install.checkouts[n] # None
                    /\ Unwrap(install.checkouts[n]).commit
                          = Some(Commit(n, tag))

\* C38: after a frozen install, the checkout this install fetched for a
\* locked git package is at the revision the lockfile records for it.
C38_FrozenChecksOutLockedRevision ==
    install.frozen /\ install.pc = "done" /\ install.result = "ok" =>
        \A p \in Unwrap(install.existing) :
            p.kind = "Git" /\ p.name \in DOMAIN install.cloned
            => install.cloned[p.name] = p.revision

(***************************************************************************)
(* Link destinations: Installer::link_packages and                         *)
(* Fetcher::fetch_path_static (SpecLinks).                                 *)
(*                                                                         *)
(* An entry of the file system is absent, a regular file, a directory or   *)
(* a symlink with a target.  The project's checkouts directory has an      *)
(* entry for each of two fetched packages, and the Store has the           *)
(* destination of one path dependency.                                     *)
(*                                                                         *)
(* links is a record:                                                      *)
(*   found    path -> the entry there before any call                      *)
(*   entries  path -> entry                                                *)
(*   linked   the result of link_packages: "none", "ok", "err"             *)
(*   fetched  the result of fetch_path_static: "none", "ok", "err"         *)
(***************************************************************************)
Absent == [kind |-> "absent", target |-> <<>>]

RegularFile == [kind |-> "file", target |-> <<>>]

Directory == [kind |-> "dir", target |-> <<>>]

Symlink(target) == [kind |-> "symlink", target |-> target]

\* The packages fetched, and the path of each one's Store checkout.
Fetched == {"a", "b"}

StorePath(name) == <<"store", name>>

\* The path dependency's source, and its destination in the Store.
SourcePath == <<"src", "p">>

PathDest == <<"store", "p">>

CheckoutPath(name) == <<"checkouts", name>>

LinkPaths == {CheckoutPath(n) : n \in Fetched} \cup {PathDest}

\* The directories that exist beside the link destinations; <<"gone">> does
\* not exist.
ExistingDirs == {StorePath(n) : n \in Fetched} \cup {SourcePath, <<"other">>}

EntriesFound ==
    {Absent, RegularFile, Directory}
    \cup {Symlink(t) : t \in ExistingDirs \cup {<<"gone">>}}

\* Path::exists follows symlinks: a dangling symlink does not exist.
path_exists(entry) ==
    \/ entry.kind \in {"file", "dir"}
    \/ entry.kind = "symlink" /\ entry.target \in ExistingDirs

is_symlink(entry) == entry.kind = "symlink"

\* Path::is_file follows symlinks; every symlink target here is a
\* directory.
is_file(entry) == entry.kind = "file"

\* fs::remove_file unlinks a file or a symlink and fails on a directory;
\* fs::remove_dir_all removes a directory; symlink fails when anything is
\* at the destination.  Each gives the entry afterwards and whether it
\* succeeded.
IoResult(entry, ok) == [entry |-> entry, ok |-> ok]

remove_file(entry) ==
    IF entry.kind \in {"file", "symlink"} THEN IoResult(Absent, TRUE)
    ELSE IoResult(entry, FALSE)

remove_dir_all(entry) ==
    IF entry.kind \in {"dir", "symlink"} THEN IoResult(Absent, TRUE)
    ELSE IoResult(entry, FALSE)

symlink(target, entry) ==
    IF entry.kind = "absent" THEN IoResult(Symlink(target), TRUE)
    ELSE IoResult(entry, FALSE)

\* One round of the loop of link_packages (lines 505-525).
link_package(target, entry) ==
    LET removed ==
            IF path_exists(entry)
            THEN IF is_symlink(entry) \/ is_file(entry)
                 THEN remove_file(entry)
                 ELSE remove_dir_all(entry)
            ELSE IoResult(entry, TRUE)
    IN  IF removed.ok THEN symlink(target, removed.entry) ELSE removed

\* link_packages over fetch_results in the order the HashMap gives; the
\* first error ends it.
RECURSIVE link_packages(_, _)
link_packages(entries, order) ==
    IF order = <<>> THEN [entries |-> entries, ok |-> TRUE]
    ELSE LET path == CheckoutPath(Head(order))
             r == link_package(StorePath(Head(order)), entries[path])
         IN  IF r.ok
             THEN link_packages([entries EXCEPT ![path] = r.entry],
                                Tail(order))
             ELSE [entries |-> [entries EXCEPT ![path] = r.entry],
                   ok |-> FALSE]

\* fetch_path_static (lines 196-219): the source exists, so
\* compute_dir_hash succeeds.
fetch_path_static(entry) ==
    LET removed == IF path_exists(entry) THEN remove_file(entry)
                   ELSE IoResult(entry, TRUE)
    IN  IF removed.ok THEN symlink(SourcePath, removed.entry) ELSE removed

LinksInit ==
    /\ \E entries \in [LinkPaths -> EntriesFound] :
          links = [op |-> "links", found |-> entries, entries |-> entries,
                   linked |-> "none", fetched |-> "none"]
    /\ AlgebraIdle /\ ChooseIdle /\ ResolverIdle
    /\ world = [strategy |-> "Highest"]
    /\ trace = [n \in Names |-> None]
    /\ FetchIdle /\ CacheIdle /\ BinaryCacheIdle /\ BuildIdle
    /\ InstallIdle /\ TagsIdle /\ WorkspaceIdle

othersOfLinks ==
    <<alg, cv, world, trace, resolverVars, fetch, gcache, bcache, build,
      install, tags, workspace>>

\* One call of link_packages with the fetch results of both packages.
LinkPackagesCall ==
    /\ links.op = "links" /\ links.linked = "none"
    /\ \E order \in Orders(Fetched) :
       \E r \in {link_packages(links.entries, order)} :
          links' = [links EXCEPT !.entries = r.entries,
                                 !.linked = IF r.ok THEN "ok" ELSE "err"]
    /\ UNCHANGED othersOfLinks

\* One fetch of the path dependency into the Store.
FetchPathCall ==
    /\ links.op = "links" /\ links.fetched = "none"
    /\ \E r \in {fetch_path_static(links.entries[PathDest])} :
          links' = [links EXCEPT !.entries[PathDest] = r.entry,
                                 !.fetched = IF r.ok THEN "ok" ELSE "err"]
    /\ UNCHANGED othersOfLinks

LinksNext == LinkPackagesCall \/ FetchPathCall

SpecLinks == LinksInit /\ [][LinksNext]_vars

\* C25: once link_packages has run, whatever was at the destinations
\* before (a file, a directory, a live or a dangling symlink), the entry
\* was removed and every fetched package's entry in the checkouts
\* directory is a symlink to its Store checkout.
C25_CheckoutsLinked ==
    links.linked # "none" =>
        \A n \in Fetched :
            links.entries[CheckoutPath(n)] = Symlink(StorePath(n))

\* C26: fetching a path dependency whose destination was a symlink, live
\* or dangling, succeeds and leaves the destination a symlink to the
\* dependency's source.
C26_PathSymlinkReplaced ==
    links.fetched # "none" /\ is_symlink(links.found[PathDest]) =>
        /\ links.fetched = "ok"
        /\ links.entries[PathDest] = Symlink(SourcePath)

(***************************************************************************)
(* gust-fetch: list_remote_tags (SpecTags).                                *)
(*                                                                         *)
(* A tag name is a sequence of pieces: an optional "v" and a number, or a  *)
(* word.  tags is a record:                                                *)
(*   remote  the tag names git ls-remote prints, in its order              *)
(*   listed  None, or the tags list_remote_tags returned                   *)
(***************************************************************************)
TagNames ==
    {<<"1">>, <<"2">>, <<"v", "1">>, <<"v", "2">>, <<"latest">>,
     <<"nightly">>}

\* The place of a tag name in the order of strings.
NameRank(name) ==
    CASE name = <<"1">> -> 1
      [] name = <<"2">> -> 2
      [] name = <<"latest">> -> 3
      [] name = <<"nightly">> -> 4
      [] name = <<"v", "1">> -> 5
      [] name = <<"v", "2">> -> 6

\* tag_name.strip_prefix('v').unwrap_or(&tag_name) (line 520).
strip_prefix_v(name) == IF Head(name) = "v" THEN Tail(name) ELSE name

\* semver::Version::parse(..).ok() (line 521).
semver_parse(text) ==
    CASE text = <<"1">> -> Some(1)
      [] text = <<"2">> -> Some(2)
      [] OTHER -> None

GitTag(name) == [name |-> name, version |-> semver_parse(strip_prefix_v(name))]

Compare(x, y) ==
    IF x < y THEN "Less" ELSE IF x = y THEN "Equal" ELSE "Greater"

\* The comparator given to sort_by (lines 531-536), for tags a and b.
tag_order(a, b) ==
    CASE b.version # None /\ a.version # None ->
             Compare(Unwrap(b.version), Unwrap(a.version))
      [] b.version # None /\ a.version = None -> "Less"
      [] b.version = None /\ a.version # None -> "Greater"
      [] OTHER -> Compare(NameRank(b.name), NameRank(a.name))

\* slice::sort_by is a stable sort: x goes behind every element that is
\* not greater than it.
RECURSIVE insert_sorted(_, _)
insert_sorted(sorted, x) ==
    IF sorted = <<>> THEN <<x>>
    ELSE IF tag_order(Head(sorted), x) = "Greater" THEN <<x>> \o sorted
    ELSE <<Head(sorted)>> \o insert_sorted(Tail(sorted), x)

RECURSIVE sort_by(_)
sort_by(list) ==
    IF list = <<>> THEN <<>>
    ELSE insert_sorted(sort_by(SubSeq(list, 1, Len(list) - 1)),
                       list[Len(list)])

\* list_remote_tags: one GitTag for every line, sorted.
list_remote_tags(lines) == sort_by([i \in DOMAIN lines |-> GitTag(lines[i])])

TagsInit ==
    /\ \E S \in SUBSET TagNames :
          /\ Cardinality(S) <= 3
          /\ \E lines \in Orders(S) :
                tags = [op |-> "tags", remote |-> lines, listed |-> None]
    /\ AlgebraIdle /\ ChooseIdle /\ ResolverIdle
    /\ world = [strategy |-> "Highest"]
    /\ trace = [n \in Names |-> None]
    /\ FetchIdle /\ CacheIdle /\ BinaryCacheIdle /\ BuildIdle
    /\ InstallIdle /\ LinksIdle /\ WorkspaceIdle

othersOfTags ==
    <<alg, cv, world, trace, resolverVars, fetch, gcache, bcache, build,
      install, links, workspace>>

ListRemoteTags ==
    /\ tags.op = "tags" /\ tags.listed = None
    /\ tags' = [tags EXCEPT !.listed = Some(list_remote_tags(tags.remote))]
    /\ UNCHANGED othersOfTags

TagsNext == ListRemoteTags

SpecTags == TagsInit /\ [][TagsNext]_vars

\* C27: the result holds every tag of the remote once; the tags that parse
\* as semver come first, in descending version order, and no tag that does
\* not parse precedes one that does.
C27_SemverTagsFirst ==
    tags.listed # None =>
        LET result == Unwrap(tags.listed)
        IN  /\ Len(result) = Len(tags.remote)
            /\ {result[i].name : i \in DOMAIN result}
                   = {tags.remote[i] : i \in DOMAIN tags.remote}
            /\ \A i, j \in DOMAIN result :
                  i < j =>
                      /\ ~(result[i].version = None
                              /\ result[j].version # None)
                      /\ (result[i].version # None /\ result[j].version # None
                             => Unwrap(result[i].version)
                                    >= Unwrap(result[j].version))

(***************************************************************************)
(* gust-build: Builder::build with the binary cache (SpecBuildCache).      *)
(*                                                                         *)
(* Builds of one project follow one another, each in a process of its      *)
(* own.  build is a record:                                                *)
(*   project  the project directory and the manifest                       *)
(*   cache    the fingerprints the LocalBinaryCache holds an archive for   *)
(*   last     None, or the last call of build: its options, the            *)
(*            fingerprint, whether the cache held it (hit), whether        *)
(*            the build was restored (cached), whether the compiler ran    *)
(*            (compiled), whether the artifacts were stored, the result,   *)
(*            and whether it repeats a successful caching build of the     *)
(*            same inputs (repeat)                                         *)
(***************************************************************************)
\* The projects built: sources under Sources/, with Package.swift.
BuildProjects ==
    {p \in Projects :
        /\ p.manifest_file = "Package.swift"
        /\ \A f \in p.files : f.dir = <<"Sources">>}

BuildCacheInit ==
    /\ \E project \in BuildProjects :
          build = [op |-> "build", project |-> project, cache |-> {},
                   artifacts |-> {}, last |-> None]
    /\ AlgebraIdle /\ ChooseIdle /\ ResolverIdle
    /\ world = [strategy |-> "Highest"]
    /\ trace = [n \in Names |-> None]
    /\ FetchIdle /\ CacheIdle /\ BinaryCacheIdle /\ CliIdle

\* The record of a call of build.
BuildResult(cached, compiled, stored, result) ==
    [cached |-> cached, compiled |-> compiled, stored |-> stored,
     result |-> result]

\* manifest.targets, and the values of options.target: none, a target of
\* the manifest, or a name the manifest does not have.
ManifestTargets == {"App"}

TargetOptions == {None} \cup {Some(t) : t \in ManifestTargets \cup {"Tool"}}

\* What cache.restore returns for a fingerprint contains has just found:
\* Ok, CacheMiss when the archive is gone by then, DecompressionError or
\* an io error when it is truncated or corrupt.
RestoreOutcomes == {"ok", "CacheMiss", "DecompressionError"}

\* The target named by the options, if any, is one of the manifest's.
TargetFound(options) ==
    options.target = None \/ options.target \cap ManifestTargets # {}

\* The cache is consulted and holds the fingerprint (lines 194-196).
CacheHit(cache, fingerprint, options) ==
    options.use_cache /\ ~options.force_rebuild /\ fingerprint \in cache

\* Builder::build (lines 168-302) for given options (use_cache,
\* force_rebuild, target) and environment (restore, compile_ok, store_ok):
\* the target check, the cache lookup and restore, else the compiler,
\* whose success is the toolchain's, and the store, whose failure is only
\* logged.
run_build(cache, fingerprint, options, env) ==
    IF ~TargetFound(options)
    THEN BuildResult(FALSE, FALSE, FALSE, "err")
    ELSE IF CacheHit(cache, fingerprint, options)
    THEN IF env.restore = "ok" THEN BuildResult(TRUE, FALSE, FALSE, "ok")
         ELSE BuildResult(FALSE, FALSE, FALSE, "err")
    ELSE IF ~env.compile_ok THEN BuildResult(FALSE, TRUE, FALSE, "err")
    ELSE BuildResult(FALSE, TRUE, options.use_cache /\ env.store_ok, "ok")

\* The target selection the archive of a fingerprint was built with.
StoredFor(artifacts, fingerprint) ==
    {a.target : a \in {x \in artifacts : x.fingerprint = fingerprint}}

\* A successful build with caching enabled has just been made of the
\* project as it is.
Repeats(last) ==
    /\ last # None
    /\ Unwrap(last).result = "ok" /\ Unwrap(last).use_cache
    /\ Unwrap(last).cached \/ Unwrap(last).stored

\* One call of build in a process of its own.
BuildCall ==
    /\ build.op = "build"
    /\ \E use_cache \in BOOLEAN, force_rebuild \in BOOLEAN,
          target \in TargetOptions,
          keys \in Orders(build.project.dependencies) :
       \E fp \in {compute_fingerprint(build.project, keys)} :
       \E options \in {[use_cache |-> use_cache,
                         force_rebuild |-> force_rebuild,
                         target |-> target]} :
       \E restore \in IF TargetFound(options)
                          /\ CacheHit(build.cache, fp, options)
                       THEN RestoreOutcomes ELSE {"none"} :
       \E compile_ok \in IF restore = "none" /\ TargetFound(options)
                          THEN BOOLEAN ELSE {TRUE} :
       \E store_ok \in IF restore = "none" /\ TargetFound(options)
                           /\ compile_ok /\ use_cache
                        THEN BOOLEAN ELSE {TRUE} :
       \E b \in {run_build(build.cache, fp, options,
                           [restore |-> restore, compile_ok |-> compile_ok,
                            store_ok |-> store_ok])} :
          build' = [build EXCEPT
              !.cache = IF b.stored THEN @ \cup {fp} ELSE @,
              !.artifacts =
                  IF b.stored
                  THEN {a \in @ : a.fingerprint # fp}
                       \cup {[fingerprint |-> fp, target |-> target]}
                  ELSE @,
              !.last = Some([use_cache |-> use_cache,
                             force_rebuild |-> force_rebuild,
                             target |-> target,
                             restore |-> restore,
                             restored |-> IF b.cached
                                          THEN StoredFor(build.artifacts, fp)
                                          ELSE {},
                             fingerprint |-> fp,
                             hit |-> fp \in build.cache,
                             cached |-> b.cached, compiled |-> b.compiled,
                             stored |-> b.stored, result |-> b.result,
                             compile_failed |-> b.compiled /\ ~compile_ok,
                             repeat |-> Repeats(build.last)])]
    /\ UNCHANGED othersOfBuild

\* The content of a source file changes between builds.
EditProject ==
    /\ build.op = "build"
    /\ \E f \in {g \in build.project.files : g.ext = "swift"},
          c \in {1, 2} :
          /\ c # f.content
          /\ build' = [build EXCEPT
                !.project.files = (@ \ {f}) \cup {[f EXCEPT !.content = c]},
                !.last = None]
    /\ UNCHANGED othersOfBuild

BuildCacheNext == BuildCall \/ EditProject

SpecBuildCache == BuildCacheInit /\ [][BuildCacheNext]_vars

\* C28: with caching enabled and force_rebuild off, a build is restored
\* without the compiler exactly when the cache holds its fingerprint; a
\* build that compiled and stored leaves its fingerprint in the cache;
\* and a build repeated at once with unchanged inputs is restored.  The
\* builds meant name no target the manifest lacks, and their restore, if
\* one is tried, succeeds.
C28_RepeatedBuildCached ==
    /\ build.last # None
    /\ TargetFound(Unwrap(build.last))
    /\ Unwrap(build.last).restore \in {"none", "ok"}
    =>
        LET b == Unwrap(build.last)
        IN  /\ b.use_cache /\ ~b.force_rebuild =>
                  /\ b.cached <=> b.hit
                  /\ b.cached <=> ~b.compiled
            /\ b.compiled /\ b.result = "ok" /\ b.stored =>
                  b.fingerprint \in build.cache
            /\ b.repeat /\ b.use_cache /\ ~b.force_rebuild => b.cached

\* C36: when the cache reports a hit and restoring fails (the archive is
\* gone by then, or is truncated or corrupt), build falls back to the
\* compiler and does not return the restore error.
C36_RestoreFailureFallsBack ==
    \A b \in build.last :
        b.restore \in RestoreOutcomes \ {"ok"} =>
            /\ b.compiled
            /\ b.result = "err" => b.compile_failed

\* C37: a build that is restored from the cache is restored from an
\* archive that a build of the same target selection stored.
C37_TargetsDoNotShareEntries ==
    \A b \in build.last : b.cached => b.restored = {b.target}

(***************************************************************************)
(* gust-workspace: Workspace::build_order (SpecBuildOrder).                *)
(*                                                                         *)
(* A workspace is its members in the order of the Vec, each with a name    *)
(* and its workspace_deps in the order of the Vec.  Members are identified *)
(* by name (get_member), so the names of a workspace differ; a name in     *)
(* workspace_deps need not be a member's.                                  *)
(*                                                                         *)
(* workspace is a record: members, deps (by member name), and result, the  *)
(* value build_order returned, if it was called.                           *)
(***************************************************************************)
MemberNames == {"core", "cli", "utils"}

DepNames == MemberNames \cup {"external"}

\* Vecs without repetition of at most two names
DepLists ==
    {<<>>} \cup {<<x>> : x \in DepNames}
    \cup {l \in DepNames \X DepNames : l[1] # l[2]}

MemberLists ==
    {<<x>> : x \in MemberNames}
    \cup {l \in MemberNames \X MemberNames : l[1] # l[2]}
    \cup {l \in MemberNames \X MemberNames \X MemberNames :
             l[1] # l[2] /\ l[1] # l[3] /\ l[2] # l[3]}

Range(f) == {f[k] : k \in DOMAIN f}

\* The test of the dependency with every visited member taken as on the
\* stack.
OnStack_visited(st, dep_name) == dep_name \in st.visited

\* in_stack.get(dep_name).copied().unwrap_or(false)
OnStack(st, dep_name) == dep_name \in st.in_stack

RECURSIVE visit_deps(_, _, _, _)

RECURSIVE topo_visit(_, _, _)

\* The loop of topo_visit over member.workspace_deps from index k on; st is
\* visited, in_stack, order and the error returned, if any.
visit_deps(w, member, k, st) ==
    IF k > Len(w.deps[member]) THEN st
    ELSE LET dep_name == w.deps[member][k]
         IN  IF dep_name \notin Range(w.members)
             THEN visit_deps(w, member, k + 1, st)
             ELSE IF OnStack(st, dep_name)
             THEN [st EXCEPT !.err = Some(<<member, dep_name>>)]
             ELSE IF dep_name \notin st.visited
             THEN LET st2 == topo_visit(w, dep_name, st)
                  IN  IF st2.err # None THEN st2
                      ELSE visit_deps(w, member, k + 1, st2)
             ELSE visit_deps(w, member, k + 1, st)

\* Workspace::topo_visit
topo_visit(w, member, st) ==
    LET entered == [st EXCEPT !.visited = @ \cup {member},
                              !.in_stack = @ \cup {member}]
        after == visit_deps(w, member, 1, entered)
    IN  IF after.err # None THEN after
        ELSE [after EXCEPT !.in_stack = @ \ {member},
                           !.order = Append(@, member)]

RECURSIVE build_order_from(_, _, _)

\* The loop of build_order over self.members from index k on.
build_order_from(w, k, st) ==
    IF k > Len(w.members) THEN st
    ELSE IF w.members[k] \in st.visited
    THEN build_order_from(w, k + 1, st)
    ELSE LET st2 == topo_visit(w, w.members[k], st)
         IN  IF st2.err # None THEN st2
             ELSE build_order_from(w, k + 1, st2)

\* Workspace::build_order: Ok(order) or Err(CycleDetected { cycle })
build_order(w) ==
    LET st == build_order_from(w, 1, [visited |-> {}, in_stack |-> {},
                                      order |-> <<>>, err |-> None])
    IN  IF st.err # None
        THEN [ok |-> FALSE, order |-> <<>>, cycle |-> Unwrap(st.err)]
        ELSE [ok |-> TRUE, order |-> st.order, cycle |-> <<>>]

BuildOrderInit ==
    /\ \E members \in MemberLists :
          \E deps \in [Range(members) -> DepLists] :
              workspace = [op |-> "build_order", members |-> members,
                           deps |-> deps, result |-> None]
    /\ AlgebraIdle /\ ChooseIdle /\ ResolverIdle
    /\ world = [strategy |-> "Highest"]
    /\ trace = [n \in Names |-> None]
    /\ FetchIdle /\ CacheIdle /\ BinaryCacheIdle /\ BuildIdle
    /\ InstallIdle /\ LinksIdle /\ TagsIdle

othersOfWorkspace ==
    <<alg, cv, world, trace, resolverVars, fetch, gcache, bcache, build,
      install, links, tags>>

BuildOrderCall ==
    /\ workspace.op = "build_order"
    /\ workspace.result = None
    /\ workspace' = [workspace EXCEPT !.result = Some(build_order(workspace))]
    /\ UNCHANGED othersOfWorkspace

BuildOrderNext == BuildOrderCall

SpecBuildOrder == BuildOrderInit /\ [][BuildOrderNext]_vars

\* Member x depends on member y.
MemberEdge(x, y) ==
    /\ x \in Range(workspace.members)
    /\ y \in Range(workspace.members)
    /\ y \in Range(workspace.deps[x])

\* The inter-member graph has a cycle: a closed walk x1 -> ... -> xk -> x1
\* over the members.
GraphHasCycle ==
    \E k \in 1..Len(workspace.members) :
        \E walk \in [1..k -> Range(workspace.members)] :
            /\ \A j \in 1..(k - 1) : MemberEdge(walk[j], walk[j + 1])
            /\ MemberEdge(walk[k], walk[1])

C33_WitnessCycle ==
    /\ workspace.op = "build_order"
    /\ workspace.members = <<"cli", "utils", "core">>
    /\ workspace.deps["cli"] = <<"utils">>
    /\ workspace.deps["utils"] = <<"core">>
    /\ workspace.deps["core"] = <<"cli">>
    /\ workspace.result # None
    /\ ~Unwrap(workspace.result).ok

(***************************************************************************)
(* gust-workspace: WorkspaceResolver::resolve (SpecWorkspace).             *)
(*                                                                         *)
(* The members are named a and b; a member's manifest may declare a        *)
(* registry dependency on the external package q with a requirement, and   *)
(* a dependency on the other member.  The root manifest has no overrides   *)
(* and no constraints, there are no lockfile hints, and the provider's     *)
(* packages have no dependencies of their own.                             *)
(*                                                                         *)
(* workspace is a record: members (the Vec of names), manifest (by member: *)
(* name -> Dependency, if declared), avail (the provider's versions of q), *)
(* strategy, and result, what resolve returned, if it was called.          *)
(***************************************************************************)
WsMembers == {"a", "b"}

WsMemberLists ==
    {<<x>> : x \in WsMembers} \cup {l \in WsMembers \X WsMembers : l[1] # l[2]}

\* The requirement strings a member's manifest has for q.
WsRequirements == {"^1.4", "=1.4.0", "<1.5.0", "^2"}

\* Manifest.dependencies of a member m: q if declared, and the other
\* member if depended on.
WsManifests(m) ==
    {[n \in Names |->
        IF n = "q" THEN d
        ELSE IF n # m /\ n \in WsMembers /\ onMember
        THEN Some(Dependency(n, None))
        ELSE None] :
        d \in {None} \cup {Some(Dependency("q", VersionReq_parse(r))) :
                              r \in WsRequirements},
        onMember \in BOOLEAN}

\* The name is no member's: !self.members.iter().any(|m| m.name == *name)
IsExternal(ws, name) == name \notin Range(ws.members)

RECURSIVE all_external_from(_, _, _)

\* The loop of all_external_dependencies over self.members from index k
\* on: every external dependency of the member is inserted, replacing the
\* value the map has under that name.
all_external_from(ws, k, all_deps) ==
    IF k > Len(ws.members) THEN all_deps
    ELSE all_external_from(ws, k + 1,
            [n \in Names |->
                IF ws.manifest[ws.members[k]][n] # None /\ IsExternal(ws, n)
                THEN ws.manifest[ws.members[k]][n]
                ELSE all_deps[n]])

\* Workspace::all_external_dependencies
all_external_dependencies(ws) == all_external_from(ws, 1, NoDeps)

\* The provider, hints and strategy Resolver::resolve runs with.
WsProvider(ws) ==
    [avail |-> [n \in Names |-> IF n = "q" THEN ws.avail ELSE {}],
     hints |-> NoDeps, overrides |-> NoDeps, constraints |-> NoDeps,
     strategy |-> ws.strategy]

\* The range of a root dependency.
RootRange(dep) ==
    IF dep.version = None THEN any ELSE from_req(Unwrap(dep.version))

\* WorkspaceResolver::resolve: the synthetic root manifest depends on
\* all_external_dependencies, and each package, having no dependencies,
\* gets the version choose_version picks in the root's range; resolve
\* fails when some package gets none.
workspace_resolve(ws) ==
    LET all_deps == all_external_dependencies(ws)
        wanted == {n \in Names : all_deps[n] # None}
        pick == [n \in wanted |->
                    choose_version(WsProvider(ws), n,
                                   RootRange(Unwrap(all_deps[n])))]
    IN  IF \E n \in wanted : pick[n].err \/ pick[n].version = None
        THEN [ok |-> FALSE, packages |-> <<>>, member_deps |-> <<>>]
        ELSE [ok |-> TRUE,
              packages |-> [n \in wanted |-> Unwrap(pick[n].version)],
              member_deps |->
                  [m \in Range(ws.members) |->
                      {n \in Names : /\ ws.manifest[m][n] # None
                                     /\ IsExternal(ws, n)}]]

WorkspaceInit ==
    /\ \E members \in WsMemberLists, avail \in QAvail,
          strategy \in Strategies :
          \E manifest \in [Range(members) -> UNION {WsManifests(m) :
                                                      m \in WsMembers}] :
              /\ \A m \in Range(members) : manifest[m] \in WsManifests(m)
              /\ workspace = [op |-> "resolve", members |-> members,
                              manifest |-> manifest, avail |-> avail,
                              strategy |-> strategy, result |-> None]
    /\ AlgebraIdle /\ ChooseIdle /\ ResolverIdle
    /\ world = [strategy |-> "Highest"]
    /\ trace = [n \in Names |-> None]
    /\ FetchIdle /\ CacheIdle /\ BinaryCacheIdle /\ BuildIdle
    /\ InstallIdle /\ LinksIdle /\ TagsIdle

WorkspaceResolve ==
    /\ workspace.op = "resolve"
    /\ workspace.result = None
    /\ workspace' = [workspace EXCEPT
                        !.result = Some(workspace_resolve(workspace))]
    /\ UNCHANGED othersOfWorkspace

WorkspaceNext == WorkspaceResolve

SpecWorkspace == WorkspaceInit /\ [][WorkspaceNext]_vars

\* C39: for every member and every external dependency it declares with a
\* version requirement, the version of that package in the unified
\* resolution satisfies the member's requirement, also when two members
\* declare different requirements on the same package.
C39_MemberRequirementsHold ==
    \A r \in workspace.result :
        r.ok =>
            \A m \in Range(workspace.members), n \in Names :
                \A dep \in workspace.manifest[m][n] :
                    IsExternal(workspace, n) /\ dep.version # None =>
                        /\ n \in DOMAIN r.packages
                        /\ matches(Unwrap(dep.version), r.packages[n])

====
